---------------------------- MODULE Spec2Model ----------------------------
(***************************************************************************)
(* The room-scoped authoritative game loop of src/server/index.js (the     *)
(* multi-room server, lines 394-864): the room registry, the connection,   *)
(* message and close handlers, the 60 Hz simulation driver and the 30 Hz   *)
(* snapshot driver.                                                        *)
(*                                                                         *)
(* Numbers.  The server computes in IEEE doubles; the model computes in    *)
(* fixed point:                                                            *)
(*   - a length is counted in 1/TICK_RATE pixel, so that a speed given in  *)
(*     pixel per second is the displacement of one tick (DT = 1/TICK_RATE);*)
(*   - a velocity of a food is counted in 1/TICK_RATE pixel per second;    *)
(*   - an angle is counted in 1/1000 radian, PI = 3142;                    *)
(*   - a unit vector and a sine or cosine are counted in 1/1000;           *)
(*   - room.time, room.lastSpawnTime and the dwell timers are counted in   *)
(*     ticks, and the thresholds they are compared with are the number of  *)
(*     additions of the double 1/60 after which the comparison of the code *)
(*     first succeeds (see EAT_TIME and SPAWN_INTERVAL).                   *)
(* null is 0: player ids and food ids start at 1, and the code tests both  *)
(* by truthiness.                                                          *)
(***************************************************************************)
EXTENDS Integers, Sequences, FiniteSets, TLC

\* ------------------------------------------------------------------------
\* Program constants (src/server/index.js:400-433)
\* ------------------------------------------------------------------------
TICK_RATE == 60
WIDTH == 960 * TICK_RATE
HEIGHT == 540 * TICK_RATE
MOVE_SPEED == 220
\* MAX_ANGULAR_SPEED * DT = 4.5 / 60 = 0.075 rad, in 1/1000 rad
MAX_ANGULAR_STEP == 75
CHOPSTICK_LENGTH == 181 * TICK_RATE
CONE_RADIUS == 180 * TICK_RATE
PICKUP_CLOSE_RADIUS == 26 * TICK_RATE
MOUTH_RADIUS == 30 * TICK_RATE
MOUTH_OFFSET_X == 0 * TICK_RATE
MOUTH_OFFSET_Y_LEFT == 84 * TICK_RATE
MOUTH_OFFSET_Y_RIGHT == 67 * TICK_RATE
\* EAT_TIME = 0.4 s: 24 additions of the double 1/60 give 0.39999999999999997,
\* so mouthTimers[id] >= EAT_TIME first holds after 25 ticks in the mouth.
EAT_TIME == 25
MAX_FOOD == 8
\* SPAWN_INTERVAL = 2.0 s: 120 additions of the double 1/60 give
\* 1.9999999999999984, so lastSpawnTime >= SPAWN_INTERVAL first holds after 121.
SPAWN_INTERVAL == 121
\* GRAVITY * DT = 170 / 60 pixel per second, in 1/TICK_RATE pixel per second
GRAVITY == 170
MAX_FULLNESS == 100
\* room.time + 0.35 s, in ticks
MOUTH_OPEN_TICKS == 21
\* Math.PI in 1/1000 rad
PI == 3142
\* CONE_HALF_ANGLE = PI / 3: cos(PI / 3) = 1/2, the test is 2 * cos >= 1
CONE_COS_DEN == 2
\* the values of FOOD_TYPES
FOOD_VALUES == {6, 7, 8, 9, 10, 11, 12, 13}

NULL == 0
Milli == 10 * 100

\* ------------------------------------------------------------------------
\* Bounds of the model
\* ------------------------------------------------------------------------
\* connections the transport hands to the server in one behaviour
MaxConns == 3
\* inbound messages handled and runs of the simulation driver that advance a
\* room, after the initial state
MaxEvents == 2

ConnIds == 1..MaxConns
\* "lobby" is the fallback of the room query parameter
RoomIds == {"lobby", "r2"}

\* ------------------------------------------------------------------------
\* Geometry and math utilities
\* ------------------------------------------------------------------------
\* The doubles that are no finite number: the Infinity a client can send
\* (JSON.parse reads 1e999 as Infinity) and the NaN that Infinity / Infinity
\* is. Each stands for itself only: no integer arithmetic is done on them.
Infinity == 2 ^ 30
NaN == -(2 ^ 30)

\* a - b and a + b of doubles of which a may be NaN or Infinity and b may be
\* NaN: Infinity less or plus a finite number is Infinity
Diff(a, b) ==
    IF a = NaN \/ b = NaN THEN NaN ELSE IF a = Infinity THEN Infinity ELSE a - b
Sum(a, b) ==
    IF a = NaN \/ b = NaN THEN NaN ELSE IF a = Infinity THEN Infinity ELSE a + b

Abs(a) == IF a < 0 THEN -a ELSE a

\* division rounding toward zero, as the doubles round symmetrically
TruncDiv(a, b) == IF a >= 0 THEN a \div b ELSE -((-a) \div b)

RECURSIVE SqrtSearch(_, _, _)
SqrtSearch(n, lo, hi) ==
    IF lo >= hi THEN lo
    ELSE LET mid == (lo + hi + 1) \div 2
         IN IF mid * mid <= n THEN SqrtSearch(n, mid, hi)
            ELSE SqrtSearch(n, lo, mid - 1)

\* floor of the square root, n < 2^31
ISqrt(n) == SqrtSearch(n, 0, 46340)

\* Math.hypot(x, y) in 1/1000 of the unit of x and y (|x|, |y| <= 32)
Hypot1000(x, y) == ISqrt((x * x + y * y) * 1000000)

\* normalize(x, y): a unit vector in 1/1000, the zero vector stays zero; when
\* a component is Infinity, len is Infinity, and x / len is NaN for Infinity
\* and 0 for a finite x
normalize(x, y) ==
    IF x = Infinity \/ y = Infinity
    THEN [x |-> IF x = Infinity THEN NaN ELSE 0,
          y |-> IF y = Infinity THEN NaN ELSE 0]
    ELSE LET len == Hypot1000(x, y)
         IN IF len = 0 THEN [x |-> 0, y |-> 0]
            ELSE [x |-> TruncDiv(x * 1000000, len),
                  y |-> TruncDiv(y * 1000000, len)]

RECURSIVE WrapUp(_)
WrapUp(a) == IF a <= -PI THEN WrapUp(a + PI * 2) ELSE a

RECURSIVE WrapDown(_)
WrapDown(a) == IF a > PI THEN WrapDown(a - PI * 2) ELSE a

\* wrapAngle: the two while loops, in order
wrapAngle(angle) == WrapDown(WrapUp(angle))

Max(a, b) == IF a >= b THEN a ELSE b
Min(a, b) == IF a <= b THEN a ELSE b

\* rotateTowards without the wrapAngle of its return statement
rotateUnwrapped(current, target, maxDelta) ==
    LET delta == wrapAngle(target - current)
        clamped == Max(-maxDelta, Min(maxDelta, delta))
    IN current + clamped

rotateTowards(current, target, maxDelta) ==
    LET delta == wrapAngle(target - current)
        clamped == Max(-maxDelta, Min(maxDelta, delta))
    IN wrapAngle(current + clamped)

\* Math.min and Math.max return NaN when an argument is NaN
clamp(value, min, max) ==
    IF value = NaN THEN NaN ELSE Max(min, Min(max, value))

\* Math.sin on [0, PI] in 1/1000 (Bhaskara's rational approximation,
\* exact at 0, PI/2 and PI, error below 0.002)
SinHalf(x) ==
    LET p == x * (PI - x)
    IN (16 * p) \div ((5 * PI * PI - 4 * p) \div 1000)

\* Math.sin and Math.cos of an angle in 1/1000 rad, in 1/1000
Sin(a) ==
    LET w == wrapAngle(a)
    IN IF w >= 0 THEN SinHalf(w) ELSE -SinHalf(-w)

Cos(a) == Sin(a + PI \div 2)

\* ------------------------------------------------------------------------
\* Room, player and food records
\* ------------------------------------------------------------------------
\* pixels to the unit of length
Px(n) == n * TICK_RATE

\* the speed releaseFood gives a food, pixel per second
RELEASE_SPEED == 60

createRoom(roomId) ==
    [id |-> roomId,
     players |-> << >>,
     foods |-> << >>,
     nextFoodId |-> 1,
     lastSpawnTime |-> 0,
     time |-> 0,
     gameOver |-> FALSE,
     winnerId |-> NULL,
     loserId |-> NULL,
     started |-> FALSE]

\* the player object the connection handler builds; its id is the connection's
NewPlayer(c, side) ==
    [id |-> c,
     side |-> side,
     x |-> IF side = "left" THEN Px(180) ELSE WIDTH - Px(180),
     y |-> HEIGHT \div 2,
     angle |-> IF side = "left" THEN 0 ELSE PI,
     targetAngle |-> IF side = "left" THEN 0 ELSE PI,
     fullness |-> 0,
     mouthOpenUntil |-> 0,
     holdingFoodId |-> NULL,
     ready |-> FALSE,
     input |-> [moveX |-> 0, moveY |-> 0,
                aim |-> IF side = "left" THEN 0 ELSE PI,
                release |-> FALSE]]

\* room.players is a Map: iteration is in insertion order
PlayerIds(room) == {room.players[i].id : i \in 1..Len(room.players)}

\* the position of player id in room.players, 0 when absent
PlayerIndex(room, id) ==
    IF \E i \in 1..Len(room.players) : room.players[i].id = id
    THEN CHOOSE i \in 1..Len(room.players) : room.players[i].id = id
    ELSE 0

\* room.foods.find((f) => f.id === id): the first position, 0 when none
FoodIndex(foods, id) ==
    LET hits == {i \in 1..Len(foods) : foods[i].id = id}
    IN IF hits = {} THEN 0 ELSE CHOOSE i \in hits : \A j \in hits : i <= j

\* the sequence without the element whose id is id (Array.filter, Map.delete)
RemoveId(s, id) == SelectSeq(s, LAMBDA e : e.id # id)

\* ------------------------------------------------------------------------
\* Simulation step
\* ------------------------------------------------------------------------
\* spawnFood without its first line
spawnFoodUncapped(room, d) ==
    [room EXCEPT
       !.nextFoodId = @ + 1,
       !.foods = Append(@, [id |-> room.nextFoodId,
                            x |-> d.x,
                            y |-> -Px(20),
                            vx |-> d.vx,
                            vy |-> 0,
                            value |-> d.value,
                            state |-> "free",
                            heldBy |-> NULL,
                            mouthTimers |-> << >>])]

\* spawnFood(room) with the three Math.random() results it draws
spawnFood(room, d) ==
    IF Len(room.foods) >= MAX_FOOD THEN room
    ELSE [room EXCEPT
            !.nextFoodId = @ + 1,
            !.foods = Append(@, [id |-> room.nextFoodId,
                                 x |-> d.x,
                                 y |-> -Px(20),
                                 vx |-> d.vx,
                                 vy |-> 0,
                                 value |-> d.value,
                                 state |-> "free",
                                 heldBy |-> NULL,
                                 mouthTimers |-> << >>])]

tipPosition(player) ==
    [x |-> Sum(player.x, TruncDiv(Cos(player.angle) * CHOPSTICK_LENGTH, Milli)),
     y |-> Sum(player.y, TruncDiv(Sin(player.angle) * CHOPSTICK_LENGTH, Milli))]

mouthPosition(player) ==
    LET offsetY == IF player.side = "right" THEN MOUTH_OFFSET_Y_RIGHT
                   ELSE MOUTH_OFFSET_Y_LEFT
    IN [x |-> Sum(player.x, MOUTH_OFFSET_X), y |-> Diff(player.y, offsetY)]

\* Math.hypot(dx, dy) <= r, for r < 2^15; false when the distance is NaN
DistLeq(dx, dy, r) ==
    /\ dx # NaN
    /\ dy # NaN
    /\ Abs(dx) <= r
    /\ Abs(dy) <= r
    /\ dx * dx + dy * dy <= r * r

\* isInCone: |wrapAngle(atan2(dy, dx) - angle)| <= PI / 3 is stated by the
\* cosine of that difference, (dx cos(angle) + dy sin(angle)) / dist >= 1/2
isInCone(player, food) ==
    LET tip == tipPosition(player)
        dx == Diff(food.x, tip.x)
        dy == Diff(food.y, tip.y)
    IN IF ~DistLeq(dx, dy, CONE_RADIUS) THEN FALSE
       ELSE IF DistLeq(dx, dy, PICKUP_CLOSE_RADIUS) THEN TRUE
       ELSE CONE_COS_DEN * (dx * Cos(player.angle) + dy * Sin(player.angle))
               >= Milli * ISqrt(dx * dx + dy * dy)

\* tryPickup without the test food.state === "free"
tryPickupTakesHeld(room, i) ==
    LET player == room.players[i]
        hits == {k \in 1..Len(room.foods) : isInCone(player, room.foods[k])}
    IN IF player.holdingFoodId # NULL THEN room
       ELSE IF hits = {} THEN room
       ELSE LET k == CHOOSE k \in hits : \A j \in hits : k <= j
            IN [room EXCEPT
                  !.foods[k].state = "held",
                  !.foods[k].heldBy = player.id,
                  !.foods[k].mouthTimers = << >>,
                  !.players[i].holdingFoodId = room.foods[k].id]

\* tryPickup without "candidate.mouthTimers = {}"
tryPickupKeepsTimers(room, i) ==
    LET player == room.players[i]
        hits == {k \in 1..Len(room.foods) :
                    room.foods[k].state = "free" /\ isInCone(player, room.foods[k])}
    IN IF player.holdingFoodId # NULL THEN room
       ELSE IF hits = {} THEN room
       ELSE LET k == CHOOSE k \in hits : \A j \in hits : k <= j
            IN [room EXCEPT
                  !.foods[k].state = "held",
                  !.foods[k].heldBy = player.id,
                  !.players[i].holdingFoodId = room.foods[k].id]

\* tryPickup(room, player) for the player at position i of room.players
tryPickup(room, i) ==
    LET player == room.players[i]
        hits == {k \in 1..Len(room.foods) :
                    room.foods[k].state = "free" /\ isInCone(player, room.foods[k])}
    IN IF player.holdingFoodId # NULL THEN room
       ELSE IF hits = {} THEN room
       ELSE LET k == CHOOSE k \in hits : \A j \in hits : k <= j
            IN [room EXCEPT
                  !.foods[k].state = "held",
                  !.foods[k].heldBy = player.id,
                  !.foods[k].mouthTimers = << >>,
                  !.players[i].holdingFoodId = room.foods[k].id]

\* releaseFood without its last line "player.holdingFoodId = null"
releaseFoodKeepsHolder(room, i) ==
    LET player == room.players[i]
        k == FoodIndex(room.foods, player.holdingFoodId)
    IN IF player.holdingFoodId = NULL THEN room
       ELSE IF k = 0 THEN [room EXCEPT !.players[i].holdingFoodId = NULL]
       ELSE [room EXCEPT
               !.foods[k].state = "free",
               !.foods[k].heldBy = NULL,
               !.foods[k].vx = TruncDiv(Cos(player.angle) * RELEASE_SPEED * TICK_RATE, Milli),
               !.foods[k].vy = TruncDiv(Sin(player.angle) * RELEASE_SPEED * TICK_RATE, Milli)]

\* releaseFood(room, player) for the player at position i
releaseFood(room, i) ==
    LET player == room.players[i]
        k == FoodIndex(room.foods, player.holdingFoodId)
    IN IF player.holdingFoodId = NULL THEN room
       ELSE IF k = 0 THEN [room EXCEPT !.players[i].holdingFoodId = NULL]
       ELSE [room EXCEPT
               !.foods[k].state = "free",
               !.foods[k].heldBy = NULL,
               !.foods[k].vx = TruncDiv(Cos(player.angle) * RELEASE_SPEED * TICK_RATE, Milli),
               !.foods[k].vy = TruncDiv(Sin(player.angle) * RELEASE_SPEED * TICK_RATE, Milli),
               !.players[i].holdingFoodId = NULL]

\* a free food after the integration of updateFoods, before the wrap test
FallenFood(food) ==
    LET vy == food.vy + GRAVITY
    IN [food EXCEPT !.vy = vy,
                    !.x = Sum(@, TruncDiv(food.vx, TICK_RATE)),
                    !.y = Sum(@, TruncDiv(vy, TICK_RATE))]

\* the positions of the foods that updateFoods sends back to the top
Wrapping(room) ==
    {k \in 1..Len(room.foods) :
        /\ room.foods[k].state # "held"
        /\ FallenFood(room.foods[k]).y > HEIGHT + Px(60)}

\* the loop of updateFoods when it drops the food that left the screen
RECURSIVE FoodsDropFrom(_, _, _)
FoodsDropFrom(foods, k, draws) ==
    IF k > Len(foods) THEN << >>
    ELSE LET food == foods[k]
             f == FallenFood(food)
         IN IF food.state = "held" THEN <<food>> \o FoodsDropFrom(foods, k + 1, draws)
            ELSE IF f.y > HEIGHT + Px(60) THEN FoodsDropFrom(foods, k + 1, draws)
            ELSE <<f>> \o FoodsDropFrom(foods, k + 1, draws)

\* the loop of updateFoods from position k on; draws[k] holds the two
\* Math.random() results of the wrap of the food at position k
RECURSIVE FoodsFrom(_, _, _)
FoodsFrom(foods, k, draws) ==
    IF k > Len(foods) THEN << >>
    ELSE LET food == foods[k]
             f == FallenFood(food)
             after == IF food.state = "held" THEN food
                      ELSE IF f.y > HEIGHT + Px(60)
                           THEN [f EXCEPT !.x = draws[k].x, !.y = -Px(20),
                                          !.vx = draws[k].vx, !.vy = 0]
                           ELSE f
         IN <<after>> \o FoodsFrom(foods, k + 1, draws)

\* updateFoods(room, dt)
updateFoods(room, draws) == [room EXCEPT !.foods = FoodsFrom(@, 1, draws)]

\* a += (b - a) * 0.35
Pull(a, b) ==
    IF a = NaN \/ b = NaN THEN NaN ELSE a + TruncDiv((b - a) * 35, 100)

\* updateHeldFoods(room): the players from position i on
RECURSIVE HeldFoodsFrom(_, _)
HeldFoodsFrom(room, i) ==
    IF i > Len(room.players) THEN room
    ELSE LET player == room.players[i]
             k == FoodIndex(room.foods, player.holdingFoodId)
             tip == tipPosition(player)
         IN IF player.holdingFoodId = NULL THEN HeldFoodsFrom(room, i + 1)
            ELSE IF k = 0
                 THEN HeldFoodsFrom([room EXCEPT !.players[i].holdingFoodId = NULL], i + 1)
            ELSE HeldFoodsFrom(
                    [room EXCEPT
                       !.foods[k].x = Pull(@, tip.x),
                       !.foods[k].y = Pull(@, tip.y),
                       !.foods[k].vx = 0,
                       !.foods[k].vy = 0], i + 1)

updateHeldFoods(room) == HeldFoodsFrom(room, 1)

\* food.mouthTimers[id] || 0
TimerOf(food, id) ==
    IF id \in DOMAIN food.mouthTimers THEN food.mouthTimers[id] ELSE 0

\* Eat without "room.started = false"
EatKeepsStarted(room, k, i) ==
    LET food == room.foods[k]
        eater == room.players[i]
        fullness == eater.fullness + food.value
        h == PlayerIndex(room, food.heldBy)
        opponents == {j \in 1..Len(room.players) : room.players[j].id # eater.id}
        fed == [room EXCEPT !.players[i].fullness = fullness,
                            !.players[i].mouthOpenUntil = room.time + MOUTH_OPEN_TICKS]
        freed == IF food.heldBy # NULL /\ h # 0
                 THEN [fed EXCEPT !.players[h].holdingFoodId = NULL]
                 ELSE fed
        removed == [freed EXCEPT !.foods = RemoveId(@, food.id)]
    IN IF fullness >= MAX_FULLNESS
       THEN [removed EXCEPT
               !.gameOver = TRUE,
               !.loserId = eater.id,
               !.winnerId = IF opponents = {} THEN NULL
                            ELSE room.players[CHOOSE j \in opponents :
                                                \A q \in opponents : j <= q].id,
               !.players = [j \in 1..Len(room.players) |->
                               [removed.players[j] EXCEPT !.ready = FALSE]]]
       ELSE removed

\* Eat with winner and loser exchanged
EatSwapsWinner(room, k, i) ==
    LET food == room.foods[k]
        eater == room.players[i]
        fullness == eater.fullness + food.value
        h == PlayerIndex(room, food.heldBy)
        opponents == {j \in 1..Len(room.players) : room.players[j].id # eater.id}
        fed == [room EXCEPT !.players[i].fullness = fullness,
                            !.players[i].mouthOpenUntil = room.time + MOUTH_OPEN_TICKS]
        freed == IF food.heldBy # NULL /\ h # 0
                 THEN [fed EXCEPT !.players[h].holdingFoodId = NULL]
                 ELSE fed
        removed == [freed EXCEPT !.foods = RemoveId(@, food.id)]
    IN IF fullness >= MAX_FULLNESS
       THEN [removed EXCEPT
               !.gameOver = TRUE,
               !.winnerId = eater.id,
               !.loserId = IF opponents = {} THEN NULL
                           ELSE room.players[CHOOSE j \in opponents :
                                               \A q \in opponents : j <= q].id,
               !.started = FALSE,
               !.players = [j \in 1..Len(room.players) |->
                               [removed.players[j] EXCEPT !.ready = FALSE]]]
       ELSE removed

\* Eat without "holder.holdingFoodId = null"
EatKeepsHolder(room, k, i) ==
    LET food == room.foods[k]
        eater == room.players[i]
        fullness == eater.fullness + food.value
        opponents == {j \in 1..Len(room.players) : room.players[j].id # eater.id}
        fed == [room EXCEPT !.players[i].fullness = fullness,
                            !.players[i].mouthOpenUntil = room.time + MOUTH_OPEN_TICKS]
        removed == [fed EXCEPT !.foods = RemoveId(@, food.id)]
    IN IF fullness >= MAX_FULLNESS
       THEN [removed EXCEPT
               !.gameOver = TRUE,
               !.loserId = eater.id,
               !.winnerId = IF opponents = {} THEN NULL
                            ELSE room.players[CHOOSE j \in opponents :
                                                \A q \in opponents : j <= q].id,
               !.started = FALSE,
               !.players = [j \in 1..Len(room.players) |->
                               [removed.players[j] EXCEPT !.ready = FALSE]]]
       ELSE removed

\* Eat without "for (const p of room.players.values()) p.ready = false"
EatKeepsReady(room, k, i) ==
    LET food == room.foods[k]
        eater == room.players[i]
        fullness == eater.fullness + food.value
        h == PlayerIndex(room, food.heldBy)
        opponents == {j \in 1..Len(room.players) : room.players[j].id # eater.id}
        fed == [room EXCEPT !.players[i].fullness = fullness,
                            !.players[i].mouthOpenUntil = room.time + MOUTH_OPEN_TICKS]
        freed == IF food.heldBy # NULL /\ h # 0
                 THEN [fed EXCEPT !.players[h].holdingFoodId = NULL]
                 ELSE fed
        removed == [freed EXCEPT !.foods = RemoveId(@, food.id)]
    IN IF fullness >= MAX_FULLNESS
       THEN [removed EXCEPT
               !.gameOver = TRUE,
               !.loserId = eater.id,
               !.winnerId = IF opponents = {} THEN NULL
                            ELSE room.players[CHOOSE j \in opponents :
                                                \A q \in opponents : j <= q].id,
               !.started = FALSE]
       ELSE removed

\* the body of the if at handleEating's threshold test: the player at position
\* i eats the food at position k
Eat(room, k, i) ==
    LET food == room.foods[k]
        eater == room.players[i]
        fullness == eater.fullness + food.value
        h == PlayerIndex(room, food.heldBy)
        opponents == {j \in 1..Len(room.players) : room.players[j].id # eater.id}
        fed == [room EXCEPT !.players[i].fullness = fullness,
                            !.players[i].mouthOpenUntil = room.time + MOUTH_OPEN_TICKS]
        freed == IF food.heldBy # NULL /\ h # 0
                 THEN [fed EXCEPT !.players[h].holdingFoodId = NULL]
                 ELSE fed
        removed == [freed EXCEPT !.foods = RemoveId(@, food.id)]
    IN IF fullness >= MAX_FULLNESS
       THEN [removed EXCEPT
               !.gameOver = TRUE,
               !.loserId = eater.id,
               !.winnerId = IF opponents = {} THEN NULL
                            ELSE room.players[CHOOSE j \in opponents :
                                                \A q \in opponents : j <= q].id,
               !.started = FALSE,
               !.players = [j \in 1..Len(room.players) |->
                               [removed.players[j] EXCEPT !.ready = FALSE]]]
       ELSE removed

\* handleEating without the return after an eat: the scan goes on with the
\* food that follows the eaten one
RECURSIVE EatingOn(_, _, _)
EatingOn(room, k, i) ==
    IF k > Len(room.foods) THEN room
    ELSE IF i > Len(room.players) THEN EatingOn(room, k + 1, 1)
    ELSE LET food == room.foods[k]
             player == room.players[i]
             mouth == mouthPosition(player)
             inMouth == DistLeq(Diff(food.x, mouth.x), Diff(food.y, mouth.y),
                                MOUTH_RADIUS)
             t == IF inMouth THEN TimerOf(food, player.id) + 1 ELSE 0
             timers == (player.id :> t) @@ food.mouthTimers
             timed == [room EXCEPT !.foods[k].mouthTimers = timers]
         IN IF t >= EAT_TIME THEN EatingOn(Eat(timed, k, i), k, 1)
            ELSE EatingOn(timed, k, i + 1)

\* handleEating(room, dt): the two nested loops from food k, player i on
RECURSIVE EatingFrom(_, _, _)
EatingFrom(room, k, i) ==
    IF k > Len(room.foods) THEN room
    ELSE IF i > Len(room.players) THEN EatingFrom(room, k + 1, 1)
    ELSE LET food == room.foods[k]
             player == room.players[i]
             mouth == mouthPosition(player)
             inMouth == DistLeq(Diff(food.x, mouth.x), Diff(food.y, mouth.y),
                                MOUTH_RADIUS)
             t == IF inMouth THEN TimerOf(food, player.id) + 1 ELSE 0
             timers == (player.id :> t) @@ food.mouthTimers
             timed == [room EXCEPT !.foods[k].mouthTimers = timers]
         IN IF t >= EAT_TIME THEN Eat(timed, k, i)
            ELSE EatingFrom(timed, k, i + 1)

handleEating(room) == EatingFrom(room, 1, 1)

\* move.x * MOVE_SPEED * dt for a component of the unit vector
Stride(unit) == IF unit = NaN THEN NaN ELSE TruncDiv(unit * MOVE_SPEED, Milli)

\* updatePlayers without "player.input.release = false"
RECURSIVE PlayersKeepRelease(_, _)
PlayersKeepRelease(room, i) ==
    IF i > Len(room.players) THEN room
    ELSE LET player == room.players[i]
             input == player.input
             move == normalize(input.moveX, input.moveY)
             moved == [room EXCEPT
                 !.players[i].x = clamp(Sum(@, Stride(move.x)),
                                        Px(60), WIDTH - Px(60)),
                 !.players[i].y = clamp(Sum(@, Stride(move.y)),
                                        Px(80), HEIGHT - Px(60)),
                 !.players[i].targetAngle = input.aim,
                 !.players[i].angle = rotateTowards(@, input.aim, MAX_ANGULAR_STEP)]
             released == IF input.release THEN releaseFood(moved, i) ELSE moved
         IN PlayersKeepRelease(released, i + 1)

\* updatePlayers(room, dt): the players from position i on
RECURSIVE PlayersFrom(_, _)
PlayersFrom(room, i) ==
    IF i > Len(room.players) THEN room
    ELSE LET player == room.players[i]
             input == player.input
             move == normalize(input.moveX, input.moveY)
             moved == [room EXCEPT
                 !.players[i].x = clamp(Sum(@, Stride(move.x)),
                                        Px(60), WIDTH - Px(60)),
                 !.players[i].y = clamp(Sum(@, Stride(move.y)),
                                        Px(80), HEIGHT - Px(60)),
                 !.players[i].targetAngle = input.aim,
                 !.players[i].angle = rotateTowards(@, input.aim, MAX_ANGULAR_STEP)]
             released == IF input.release THEN releaseFood(moved, i) ELSE moved
         IN PlayersFrom([released EXCEPT !.players[i].input.release = FALSE], i + 1)

updatePlayers(room) == PlayersFrom(room, 1)

\* the loop of tick over tryPickup
RECURSIVE PickupsFrom(_, _)
PickupsFrom(room, i) ==
    IF i > Len(room.players) THEN room
    ELSE PickupsFrom(tryPickup(room, i), i + 1)

\* tick up to and including updateHeldFoods
BeforeFoods(room) == updateHeldFoods(PickupsFrom(updatePlayers(room), 1))

\* tick without its first line
tickNoGuard(room, d) ==
    LET eaten == handleEating(updateFoods(BeforeFoods(room), d.wrap))
        timed == [eaten EXCEPT !.time = @ + 1, !.lastSpawnTime = @ + 1]
    IN IF timed.lastSpawnTime >= SPAWN_INTERVAL
       THEN spawnFood([timed EXCEPT !.lastSpawnTime = 0], d.spawn)
       ELSE timed

\* tick(room); d.wrap are the Math.random() results of updateFoods and d.spawn
\* those of spawnFood
tick(room, d) ==
    IF ~room.started \/ room.gameOver THEN room
    ELSE LET eaten == handleEating(updateFoods(BeforeFoods(room), d.wrap))
             timed == [eaten EXCEPT !.time = @ + 1, !.lastSpawnTime = @ + 1]
         IN IF timed.lastSpawnTime >= SPAWN_INTERVAL
            THEN spawnFood([timed EXCEPT !.lastSpawnTime = 0], d.spawn)
            ELSE timed

\* ------------------------------------------------------------------------
\* Snapshot and lifecycle
\* ------------------------------------------------------------------------
\* the payload of the single-room server (src/server/index.js:252), which has
\* no started and no ready; a reader finds them falsy
SnapshotOld(room) ==
    [type |-> "state",
     roomId |-> room.id,
     started |-> FALSE,
     gameOver |-> room.gameOver,
     winnerId |-> room.winnerId,
     loserId |-> IF room.loserId = NULL THEN NULL ELSE room.loserId,
     players |-> [i \in 1..Len(room.players) |->
        LET player == room.players[i]
        IN [id |-> player.id,
            side |-> player.side,
            x |-> player.x,
            y |-> player.y,
            angle |-> player.angle,
            fullness |-> player.fullness,
            mouthOpen |-> room.time < player.mouthOpenUntil,
            ready |-> FALSE,
            holdingFoodId |-> player.holdingFoodId]],
     foods |-> [k \in 1..Len(room.foods) |->
        LET food == room.foods[k]
        IN [id |-> food.id,
            x |-> food.x,
            y |-> food.y,
            state |-> food.state,
            heldBy |-> food.heldBy,
            value |-> food.value]]]

\* the payload broadcastState serializes
Snapshot(room) ==
    [type |-> "state",
     roomId |-> room.id,
     started |-> room.started,
     gameOver |-> room.gameOver,
     winnerId |-> room.winnerId,
     loserId |-> IF room.loserId = NULL THEN NULL ELSE room.loserId,
     players |-> [i \in 1..Len(room.players) |->
        LET player == room.players[i]
        IN [id |-> player.id,
            side |-> player.side,
            x |-> player.x,
            y |-> player.y,
            angle |-> player.angle,
            fullness |-> player.fullness,
            mouthOpen |-> room.time < player.mouthOpenUntil,
            ready |-> (player.ready = TRUE),
            holdingFoodId |-> player.holdingFoodId]],
     foods |-> [k \in 1..Len(room.foods) |->
        LET food == room.foods[k]
        IN [id |-> food.id,
            x |-> food.x,
            y |-> food.y,
            state |-> food.state,
            heldBy |-> food.heldBy,
            value |-> food.value]]]

\* resetGameIfNeeded as the single-room server has it (src/server/index.js:285):
\* started, ready and holdingFoodId are left alone
resetGameOld(room) ==
    IF Len(room.players) < 2
    THEN [room EXCEPT !.gameOver = FALSE, !.winnerId = NULL, !.loserId = NULL,
                      !.time = 0, !.foods = << >>, !.nextFoodId = 1]
    ELSE room

\* resetGameIfNeeded without "room.gameOver = false"
resetGameKeepsOver(room) ==
    IF Len(room.players) < 2
    THEN [room EXCEPT
            !.winnerId = NULL,
            !.loserId = NULL,
            !.time = 0,
            !.started = FALSE,
            !.foods = << >>,
            !.nextFoodId = 1,
            !.players = [i \in 1..Len(room.players) |->
                            [room.players[i] EXCEPT !.ready = FALSE,
                                                    !.holdingFoodId = NULL]]]
    ELSE room

resetGameIfNeeded(room) ==
    IF Len(room.players) < 2
    THEN [room EXCEPT
            !.gameOver = FALSE,
            !.winnerId = NULL,
            !.loserId = NULL,
            !.time = 0,
            !.started = FALSE,
            !.foods = << >>,
            !.nextFoodId = 1,
            !.players = [i \in 1..Len(room.players) |->
                            [room.players[i] EXCEPT !.ready = FALSE,
                                                    !.holdingFoodId = NULL]]]
    ELSE room

\* assignSide by the number of players instead of the sides taken
assignSideByCount(room) ==
    IF Len(room.players) = 0 THEN "left"
    ELSE IF Len(room.players) = 1 THEN "right"
    ELSE "none"

\* assignSide trying "right" first
assignSideRightFirst(room) ==
    LET sides == {room.players[i].side : i \in 1..Len(room.players)}
    IN IF "right" \notin sides THEN "right"
       ELSE IF "left" \notin sides THEN "left"
       ELSE "none"

\* assignSide(room); "none" is the null it returns when both sides are taken
assignSide(room) ==
    LET sides == {room.players[i].side : i \in 1..Len(room.players)}
    IN IF "left" \notin sides THEN "left"
       ELSE IF "right" \notin sides THEN "right"
       ELSE "none"

\* allReady without "if (room.players.size < 2) return false"
allReadyAlone(room) ==
    \A i \in 1..Len(room.players) : room.players[i].ready

allReady(room) ==
    IF Len(room.players) < 2 THEN FALSE
    ELSE \A i \in 1..Len(room.players) : room.players[i].ready

\* startRoom without the repositioning of the players
startRoomInPlace(room) ==
    [room EXCEPT
       !.started = TRUE,
       !.gameOver = FALSE,
       !.winnerId = NULL,
       !.loserId = NULL,
       !.time = 0,
       !.foods = << >>,
       !.nextFoodId = 1,
       !.lastSpawnTime = 0,
       !.players = [i \in 1..Len(room.players) |->
          [room.players[i] EXCEPT !.fullness = 0,
                                  !.holdingFoodId = NULL,
                                  !.mouthOpenUntil = 0]]]

startRoom(room) ==
    [room EXCEPT
       !.started = TRUE,
       !.gameOver = FALSE,
       !.winnerId = NULL,
       !.loserId = NULL,
       !.time = 0,
       !.foods = << >>,
       !.nextFoodId = 1,
       !.lastSpawnTime = 0,
       !.players = [i \in 1..Len(room.players) |->
          LET player == room.players[i]
              left == player.side = "left"
          IN [player EXCEPT
                !.fullness = 0,
                !.holdingFoodId = NULL,
                !.mouthOpenUntil = 0,
                !.x = IF left THEN Px(180) ELSE WIDTH - Px(180),
                !.y = HEIGHT \div 2,
                !.angle = IF left THEN 0 ELSE PI,
                !.targetAngle = IF left THEN 0 ELSE PI,
                !.input = [moveX |-> 0, moveY |-> 0,
                           aim |-> IF left THEN 0 ELSE PI,
                           release |-> FALSE]]]]

\* ------------------------------------------------------------------------
\* State
\* ------------------------------------------------------------------------
VARIABLES
    rooms,   \* the registry: room id -> room, for the ids it holds
    conns,   \* per connection: the socket and what the handlers' closures hold
    used,    \* how much of MaxEvents the behaviour has used
    last,    \* the handler that ran last and its arguments
    page     \* the client page that is followed, NoPage when none is

vars == <<rooms, conns, used, last, page>>

\* conns[c].st:
\*   "idle"      not yet handed to the server
\*   "open"      accepted, readyState OPEN
\*   "closing"   accepted, readyState no longer OPEN, close event not yet dispatched
\*   "closed"    accepted, close handler has run
\*   "rejected"  refused and closed by the server, its close event not yet dispatched
\*   "dropped"   refused, its close event dispatched (no handler is registered)
\* conns[c].sent lists the types of the messages the connection handler sent on
\* the socket, and conns[c].welcome the fields of the welcome message; what the
\* snapshot driver sent last is in last.to and last.payload.
\* conns[c].held and conns[c].orphan describe the objects the close handler's
\* closure keeps after it ran: the holdingFoodId of the removed player object,
\* and whether the captured room object has left the registry.
NoWelcome == [id |-> NULL, side |-> "none", roomId |-> "none"]

\* page when the behaviour follows no client page
NoPage == [socket |-> [id |-> NULL, st |-> "none"]]

IdleConn ==
    [st |-> "idle", roomId |-> "none", sent |-> << >>, welcome |-> NoWelcome,
     held |-> NULL, orphan |-> FALSE]

\* the connection record of an accepted connection when the connection
\* handler sends no welcome
OpenConnSilent(c, room) ==
    [st |-> "open", roomId |-> room.id, sent |-> << >>, welcome |-> NoWelcome,
     held |-> NULL, orphan |-> FALSE]

\* the connection record of an accepted connection, after the welcome
OpenConn(c, room) ==
    [st |-> "open", roomId |-> room.id, sent |-> <<"welcome">>,
     welcome |-> [id |-> c,
                  side |-> room.players[PlayerIndex(room, c)].side,
                  roomId |-> room.id],
     held |-> NULL, orphan |-> FALSE]

Accepted(c) == conns[c].st \in {"open", "closing", "closed"}

\* the inbound messages of the model: what JSON.parse returns
UpMsg ==
    [type |-> "input", moveX |-> 0, moveY |-> -1, aim |-> -(PI \div 2), release |-> FALSE]

ReleaseMsg ==
    [type |-> "input", moveX |-> 1, moveY |-> 0, aim |-> 0, release |-> TRUE]

InputMsgs == {UpMsg, ReleaseMsg}

ReadyMsgs == {[type |-> "ready", ready |-> b] : b \in BOOLEAN}

Msgs == InputMsgs \cup ReadyMsgs

\* the Math.random() results of the model: x in [80, WIDTH - 80), vx in [-8, 8)
FeedDraw == [value |-> 13, x |-> Px(180), vx |-> 0]
ReachDraw == [value |-> 13, x |-> Px(511), vx |-> 0]
SpawnDraws == {FeedDraw, ReachDraw}
WrapDraws == {[x |-> Px(180), vx |-> 0]}
NoSpawn == [value |-> 6, x |-> Px(80), vx |-> 0]

\* the draws one run of tick(room) can make
TickDraws(room) ==
    IF ~room.started \/ room.gameOver THEN {[spawn |-> NoSpawn, wrap |-> << >>]}
    ELSE [spawn : IF room.lastSpawnTime + 1 >= SPAWN_INTERVAL
                  THEN SpawnDraws ELSE {NoSpawn},
          wrap : [Wrapping(BeforeFoods(room)) -> WrapDraws]]

\* ------------------------------------------------------------------------
\* Handlers on a room
\* ------------------------------------------------------------------------
\* the connection handler from assignSide on: the room with the new player
Join(room, c) ==
    resetGameIfNeeded(
        [room EXCEPT !.players = Append(@, NewPlayer(c, assignSide(room)))])

\* the input branch without "if (!room.started) return"
OnInputAlways(room, i, msg) ==
    [room EXCEPT !.players[i].input =
        [moveX |-> msg.moveX,
         moveY |-> msg.moveY,
         aim |-> IF msg.aim # 0 THEN msg.aim ELSE room.players[i].input.aim,
         release |-> msg.release]]

\* the input branch of ws.on("message") for the player at position i
\* (Number(v) || d is d for the number 0)
OnInput(room, i, msg) ==
    IF ~room.started THEN room
    ELSE [room EXCEPT !.players[i].input =
            [moveX |-> msg.moveX,
             moveY |-> msg.moveY,
             aim |-> IF msg.aim # 0 THEN msg.aim ELSE room.players[i].input.aim,
             release |-> msg.release]]

\* the ready branch of ws.on("message") for the player at position i
OnReady(room, i, msg) ==
    LET set == [room EXCEPT !.players[i].ready = msg.ready]
    IN IF allReady(set) THEN startRoom(set) ELSE set

\* ws.on("message") for the player at position i
OnMessage(room, i, msg) ==
    LET afterInput == IF msg.type = "input" THEN OnInput(room, i, msg) ELSE room
    IN IF msg.type = "ready" THEN OnReady(afterInput, i, msg) ELSE afterInput

\* the body of ws.on("close") on the room object and the player object its
\* closure holds: the room after it
OnClose(room, id, holdingFoodId) ==
    LET removed == [room EXCEPT !.players = RemoveId(@, id)]
        k == FoodIndex(removed.foods, holdingFoodId)
        freed == IF holdingFoodId # NULL /\ k # 0
                 THEN [removed EXCEPT !.foods[k].state = "free",
                                      !.foods[k].heldBy = NULL]
                 ELSE removed
    IN resetGameIfNeeded(freed)

\* ------------------------------------------------------------------------
\* Initial states: the server after construction, and matches in progress
\* ------------------------------------------------------------------------
\* tick(room) n times, every spawn drawing d and every wrap drawing w
RECURSIVE Run(_, _, _, _)
Run(room, n, d, w) ==
    IF n = 0 THEN room
    ELSE IF n = 1
         THEN tick(room, [spawn |-> d,
                          wrap |-> [k \in Wrapping(BeforeFoods(room)) |-> w]])
    ELSE LET half == Run(room, n \div 2, d, w)
         IN IF half.time >= 0 THEN Run(half, n - n \div 2, d, w) ELSE half

\* "lobby" after connections 1 and 2 joined it and both sent ready: true
StartedLobby ==
    OnReady(OnReady(Join(Join(createRoom("lobby"), 1), 2),
                    1, [type |-> "ready", ready |-> TRUE]),
            2, [type |-> "ready", ready |-> TRUE])

\* The left player went to the top of the field (UpMsg), where every food
\* drawn above it falls through its mouth and is eaten: the tick before the
\* eighth food is.
FeedTicks == 8 * SPAWN_INTERVAL + EAT_TIME - 1
FeedRoom ==
    Run(OnInput(StartedLobby, 1, UpMsg), FeedTicks, FeedDraw, FeedDraw)

\* The left player ate the eighth food and lost: the match is over.
OverRoom == Run(FeedRoom, 1, FeedDraw, FeedDraw)

\* Both players stayed at their spawn; the first food was drawn where it falls
\* into the reach of the right player: the tick before that player picks it up.
ReachTicks == SPAWN_INTERVAL + 76
ReachRoom == Run(StartedLobby, ReachTicks, ReachDraw, ReachDraw)

\* Both players went to the top of the field, chopsticks up, where nothing
\* is in reach of a chopstick and where a food drawn above a mouth is eaten.
UpLobby == OnInput(OnInput(StartedLobby, 1, UpMsg), 2, UpMsg)

\* a draw between the two players, out of reach of mouths and chopsticks
FarDraw == [value |-> 13, x |-> Px(480), vx |-> 0]
\* a draw above the mouth of the right player
RightDraw == [value |-> 13, x |-> WIDTH - Px(180), vx |-> 0]
\* a draw at the edge of the mouth of the left player: the food enters the
\* mouth nine ticks after it was drawn
LeftEdgeDraw == [value |-> 13, x |-> Px(180) + 1585, vx |-> 0]

\* Four foods fell between the players, up to the tick before the fifth draw.
TwinFour == Run(UpLobby, 5 * SPAWN_INTERVAL - 1, FarDraw, FarDraw)
\* The fifth food was drawn above the right mouth.
TwinFifth == Run(TwinFour, 2, RightDraw, FarDraw)
\* Two ticks after that draw the first food came back to the top, at the edge
\* of the left mouth.
TwinBack == Run(TwinFifth, 1, FarDraw, LeftEdgeDraw)
\* Both foods have dwelt EAT_TIME - 1 ticks in a mouth: the tick before the
\* first is eaten.
TwinRoom == Run(TwinBack, 9 + EAT_TIME - 2, FarDraw, FarDraw)

\* the match one tick before its ninth spawn tick, with MAX_FOOD foods falling
\* out of the players' reach
CapTicks == 9 * SPAWN_INTERVAL - 1
CapRoom == Run(UpLobby, CapTicks, FarDraw, FarDraw)
\* The right player has picked up the first food and holds it.
HeldRoom == Run(ReachRoom, 3, ReachDraw, ReachDraw)

\* Both players stayed at their spawn, chopsticks level; the first food was
\* drawn halfway between them, where it falls into the reach of both in the
\* same tick: the tick before that.
ContestTicks == SPAWN_INTERVAL + 81
ContestRoom == Run(StartedLobby, ContestTicks, FarDraw, FarDraw)

\* The right player holds the first food; the second food was drawn where the
\* first was and is about to fall into the reach of the right player.
SkipRoom == Run(HeldRoom, SPAWN_INTERVAL - 3, ReachDraw, ReachDraw)

\* the inputs of a player that walks and keeps its aim
WalkMsg(mx, my) ==
    [type |-> "input", moveX |-> mx, moveY |-> my, aim |-> 0, release |-> FALSE]

\* a draw beside the mouth of the right player at its spawn
ServeDraw == [value |-> 13, x |-> Px(800), vx |-> 0]

\* The left player walked right for 114 ticks and up for 18 ticks and stopped:
\* the tip of its chopsticks is inside the mouth of the right player.
ServeAcross == Run(OnInput(StartedLobby, 1, WalkMsg(1, 0)), 114, ServeDraw, ServeDraw)
ServeUp == Run(OnInput(ServeAcross, 1, WalkMsg(0, -1)), 18, ServeDraw, ServeDraw)
\* The first food fell into the reach of the left player, which picked it up
\* and holds it in the mouth of the right player: two ticks before the right
\* player eats it, EAT_TIME - 2 ticks after the food came into that mouth.
ServeTicks == 78 + EAT_TIME - 2
ServeRoom == Run(OnInput(ServeUp, 1, WalkMsg(0, 0)), ServeTicks, ServeDraw, ServeDraw)

InitRooms ==
    {<< >>, [r \in {"lobby"} |-> FeedRoom], [r \in {"lobby"} |-> ReachRoom]}

Init ==
    /\ page = NoPage
    /\ rooms \in InitRooms
    /\ conns = [c \in ConnIds |->
                  IF "lobby" \in DOMAIN rooms /\ c \in PlayerIds(rooms["lobby"])
                  THEN OpenConn(c, rooms["lobby"])
                  ELSE IdleConn]
    /\ used = [ticks |-> 0, msgs |-> 0]
    /\ last = [op |-> "init", conn |-> NULL]

\* ------------------------------------------------------------------------
\* Handlers and drivers
\* ------------------------------------------------------------------------
\* the registry of the single-room server (src/server/index.js:49): one room
\* object, whatever the id
PutRoomShared(reg, room) == [r \in DOMAIN reg \cup {room.id} |-> room]

\* the registry with room put under its id
PutRoom(reg, room) ==
    [r \in DOMAIN reg \cup {room.id} |-> IF r = room.id THEN room ELSE reg[r]]

\* the close handler without rooms.delete(roomId): the emptied room stays
DeleteRoomKept(reg, roomId) == [reg EXCEPT ![roomId] = createRoom(roomId)]

\* rooms.delete(roomId)
DeleteRoom(reg, roomId) == [r \in DOMAIN reg \ {roomId} |-> reg[r]]

\* getRoom when the registry keeps the room its last player left, as
\* resetGameIfNeeded leaves it
getRoomKept(reg, roomId) ==
    IF roomId \in DOMAIN reg THEN reg
    ELSE PutRoom(reg, [createRoom(roomId) EXCEPT !.lastSpawnTime = SPAWN_INTERVAL - 1])

\* getRoom(roomId): the registry after it
getRoom(reg, roomId) ==
    IF roomId \in DOMAIN reg THEN reg ELSE PutRoom(reg, createRoom(roomId))

\* the room-full test with > for >=
IsFullOffByOne(room) == Len(room.players) > 2

\* room.players.size >= 2
IsFull(room) == Len(room.players) >= 2

\* wss.on("connection"): connection c asks for room roomId; the transport
\* numbers the connections in the order it hands them over
Connect(c, roomId) ==
    /\ UNCHANGED page
    /\ conns[c].st = "idle"
    /\ \A d \in ConnIds : d < c => conns[d].st # "idle"
    /\ LET reg == getRoom(rooms, roomId)
           room == reg[roomId]
       IN IF IsFull(room)
          THEN /\ rooms' = reg
               /\ conns' = [conns EXCEPT ![c].st = "rejected",
                                         ![c].roomId = roomId,
                                         ![c].sent = Append(@, "full")]
          ELSE IF assignSide(room) = "none"
          THEN /\ rooms' = reg
               /\ conns' = [conns EXCEPT ![c].st = "rejected",
                                         ![c].roomId = roomId]
          ELSE /\ rooms' = PutRoom(reg, Join(room, c))
               /\ conns' = [conns EXCEPT ![c] = OpenConn(c, Join(room, c))]
    /\ last' = [op |-> "connect", conn |-> c, roomId |-> roomId]
    /\ UNCHANGED used

\* ws.on("message"): connection c delivers msg
Message(c, msg) ==
    /\ UNCHANGED page
    /\ conns[c].st = "open"
    /\ used.msgs + used.ticks < MaxEvents
    /\ LET room == rooms[conns[c].roomId]
       IN rooms' = PutRoom(rooms, OnMessage(room, PlayerIndex(room, c), msg))
    /\ used' = [used EXCEPT !.msgs = @ + 1]
    /\ last' = [op |-> msg.type, conn |-> c, msg |-> msg]
    /\ UNCHANGED conns

\* the transport closes the socket of c: readyState leaves OPEN
Disconnect(c) ==
    /\ UNCHANGED page
    /\ conns[c].st = "open"
    /\ conns' = [conns EXCEPT ![c].st = "closing"]
    /\ last' = [op |-> "disconnect", conn |-> c]
    /\ UNCHANGED <<rooms, used>>

\* ws.on("close"): the close event of the accepted connection c
Close(c) ==
    /\ UNCHANGED page
    /\ conns[c].st \in {"open", "closing"}
    /\ LET roomId == conns[c].roomId
           room == rooms[roomId]
           player == room.players[PlayerIndex(room, c)]
           after == OnClose(room, c, player.holdingFoodId)
           empty == Len(after.players) = 0
       IN /\ rooms' = IF empty THEN DeleteRoom(rooms, roomId)
                      ELSE PutRoom(rooms, after)
          /\ conns' = [d \in ConnIds |->
                IF d = c
                THEN [conns[d] EXCEPT !.st = "closed",
                                      !.held = player.holdingFoodId,
                                      !.orphan = empty]
                ELSE IF empty /\ conns[d].roomId = roomId /\ conns[d].st = "closed"
                THEN [conns[d] EXCEPT !.orphan = TRUE]
                ELSE conns[d]]
    /\ last' = [op |-> "close", conn |-> c]
    /\ UNCHANGED used

\* the close event of a refused connection: the server registered no handler
CloseRefused(c) ==
    /\ UNCHANGED page
    /\ conns[c].st = "rejected"
    /\ conns' = [conns EXCEPT ![c].st = "dropped"]
    /\ last' = [op |-> "closeRefused", conn |-> c]
    /\ UNCHANGED <<rooms, used>>

\* a room that tick(room) advances
Running(room) == room.started /\ ~room.gameOver

\* the loop "while (a > Math.PI) a -= Math.PI * 2" of wrapAngle does not end
\* on a: Infinity - 2 * PI is Infinity
Endless(a) == a = Infinity

\* tick(room) does not return: updatePlayers calls rotateTowards, which calls
\* wrapAngle(target - current), for a player whose stored aim is Infinity
Stuck(room) ==
    /\ Running(room)
    /\ \E i \in 1..Len(room.players) :
          Endless(Diff(room.players[i].input.aim, room.players[i].angle))

\* the simulation driver: tick(room) for every room of the registry
TickDriver ==
    /\ UNCHANGED page
    /\ \A r \in DOMAIN rooms : ~Stuck(rooms[r])
    /\ (\E r \in DOMAIN rooms : Running(rooms[r])) =>
          used.msgs + used.ticks < MaxEvents
    /\ \E d \in {f \in [DOMAIN rooms -> UNION {TickDraws(rooms[r]) : r \in DOMAIN rooms}] :
                    \A r \in DOMAIN rooms : f[r] \in TickDraws(rooms[r])} :
          rooms' = [r \in DOMAIN rooms |-> tick(rooms[r], d[r])]
    /\ used' = IF \E r \in DOMAIN rooms : Running(rooms[r])
               THEN [used EXCEPT !.ticks = @ + 1] ELSE used
    /\ last' = [op |-> "tick", conn |-> NULL,
                advanced |-> {r \in DOMAIN rooms : Running(rooms[r])}]
    /\ UNCHANGED conns

\* the recipients when the readyState of the sockets is not looked at
RecipientsAll(room) == PlayerIds(room)

\* the connections broadcastState(room) sends to
Recipients(room) == {c \in PlayerIds(room) : conns[c].st = "open"}

\* the snapshot driver: broadcastState(room) for every room of the registry
BroadcastDriver ==
    /\ UNCHANGED page
    /\ last' = [op |-> "broadcast", conn |-> NULL,
                to |-> [r \in DOMAIN rooms |-> Recipients(rooms[r])],
                payload |-> [r \in DOMAIN rooms |-> Snapshot(rooms[r])],
                got |-> [c \in ConnIds |->
                           {Snapshot(rooms[r]) :
                              r \in {q \in DOMAIN rooms : c \in Recipients(rooms[q])}}]]
    /\ UNCHANGED <<rooms, conns, used>>

Next ==
    \/ \E c \in ConnIds, roomId \in RoomIds : Connect(c, roomId)
    \/ \E c \in ConnIds, msg \in Msgs : Message(c, msg)
    \/ \E c \in ConnIds : Close(c)
    \/ \E c \in ConnIds : CloseRefused(c)
    \/ TickDriver
    \/ BroadcastDriver

Spec == Init /\ [][Next]_vars

\* ------------------------------------------------------------------------
\* The close handler run a second time
\* ------------------------------------------------------------------------
\* every connection whose handlers are live works on a registered room
Intact == \A c \in ConnIds : conns[c].st = "open" => conns[c].roomId \in DOMAIN rooms

\* ws.on("close") of connection c run again after it ran: its closure still
\* holds the removed player object and the room object. A room object that
\* left the registry is empty and reset, so the handler changes nothing in it
\* and ends with rooms.delete(roomId).
CloseAgain(c) ==
    /\ UNCHANGED page
    /\ conns[c].st = "closed"
    /\ LET roomId == conns[c].roomId
           after == OnClose(rooms[roomId], c, conns[c].held)
       IN rooms' = IF conns[c].orphan \/ roomId \notin DOMAIN rooms
                   THEN DeleteRoom(rooms, roomId)
                   ELSE IF Len(after.players) = 0 THEN DeleteRoom(rooms, roomId)
                   ELSE PutRoom(rooms, after)
    /\ last' = [op |-> "closeAgain", conn |-> c]
    /\ UNCHANGED <<conns, used>>

\* the handlers of a room that lost its registry entry are not followed
NextLeaveTwice ==
    \/ Intact /\ Next
    \/ \E c \in ConnIds : CloseAgain(c)

SpecLeaveTwice == Init /\ [][NextLeaveTwice]_vars

\* ------------------------------------------------------------------------
\* A match behind a connection whose close handler can run again
\* ------------------------------------------------------------------------
\* The right player of HeldRoom, connection 2, left while holding food 1;
\* connection 3 took the free side, both players sent ready: true, and the
\* new match ran until its right player held its first food, food 1 again.
StaleHeld == HeldRoom.players[2].holdingFoodId
StaleLeft == OnClose(HeldRoom, 2, StaleHeld)
StaleJoined == Join(StaleLeft, 3)
StaleStarted ==
    OnReady(OnReady(StaleJoined, 1, [type |-> "ready", ready |-> TRUE]),
            2, [type |-> "ready", ready |-> TRUE])
StaleRoom == Run(StaleStarted, ReachTicks + 3, ReachDraw, ReachDraw)

\* the record of connection 2 after its close handler ran
StaleConn ==
    [st |-> "closed", roomId |-> "lobby", sent |-> <<"welcome">>,
     welcome |-> [id |-> 2, side |-> "right", roomId |-> "lobby"],
     held |-> StaleHeld, orphan |-> FALSE]

InitStale ==
    /\ page = NoPage
    /\ rooms \in {[r \in {"lobby"} |-> StaleRoom]}
    /\ conns = [c \in ConnIds |->
                  IF c \in PlayerIds(rooms["lobby"]) THEN OpenConn(c, rooms["lobby"])
                  ELSE IF c = 2 THEN StaleConn
                  ELSE IdleConn]
    /\ used = [ticks |-> 0, msgs |-> 0]
    /\ last = [op |-> "init", conn |-> NULL]

\* the handlers and drivers when no further connection arrives
NextStale ==
    \/ \E c \in ConnIds, msg \in Msgs : Message(c, msg)
    \/ \E c \in ConnIds : Close(c)
    \/ TickDriver
    \/ BroadcastDriver
    \/ \E c \in ConnIds : CloseAgain(c)

SpecStale == InitStale /\ [][NextStale]_vars

\* ------------------------------------------------------------------------
\* The server with a match in progress that the simulation brought about
\* ------------------------------------------------------------------------
SimRooms ==
    {[r \in {"lobby"} |-> TwinRoom], [r \in {"lobby"} |-> HeldRoom],
     [r \in {"lobby"} |-> CapRoom]}

InitSim ==
    /\ page = NoPage
    /\ rooms \in SimRooms
    /\ conns = [c \in ConnIds |->
                  IF c \in PlayerIds(rooms["lobby"])
                  THEN OpenConn(c, rooms["lobby"])
                  ELSE IdleConn]
    /\ used = [ticks |-> 0, msgs |-> 0]
    /\ last = [op |-> "init", conn |-> NULL]

SpecSim == InitSim /\ [][Next]_vars

\* ------------------------------------------------------------------------
\* The server with a match in which one player feeds the other, or in which
\* a food dwells in the mouth of each player
\* ------------------------------------------------------------------------
InitServe ==
    /\ page = NoPage
    /\ rooms \in {[r \in {"lobby"} |-> ServeRoom], [r \in {"lobby"} |-> TwinRoom]}
    /\ conns = [c \in ConnIds |->
                  IF c \in PlayerIds(rooms["lobby"])
                  THEN OpenConn(c, rooms["lobby"])
                  ELSE IdleConn]
    /\ used = [ticks |-> 0, msgs |-> 0]
    /\ last = [op |-> "init", conn |-> NULL]

SpecServe == InitServe /\ [][Next]_vars

\* ------------------------------------------------------------------------
\* The server with a match that is about to end, or has ended
\* ------------------------------------------------------------------------
InitRematch ==
    /\ page = NoPage
    /\ rooms \in {[r \in {"lobby"} |-> FeedRoom], [r \in {"lobby"} |-> OverRoom]}
    /\ conns = [c \in ConnIds |->
                  IF c \in PlayerIds(rooms["lobby"])
                  THEN OpenConn(c, rooms["lobby"])
                  ELSE IdleConn]
    /\ used = [ticks |-> 0, msgs |-> 0]
    /\ last = [op |-> "init", conn |-> NULL]

SpecRematch == InitRematch /\ [][Next]_vars

\* ------------------------------------------------------------------------
\* The server with a match in which a food comes into reach
\* ------------------------------------------------------------------------
InitPickup ==
    /\ page = NoPage
    /\ rooms \in {[r \in {"lobby"} |-> ContestRoom], [r \in {"lobby"} |-> SkipRoom]}
    /\ conns = [c \in ConnIds |->
                  IF c \in PlayerIds(rooms["lobby"])
                  THEN OpenConn(c, rooms["lobby"])
                  ELSE IdleConn]
    /\ used = [ticks |-> 0, msgs |-> 0]
    /\ last = [op |-> "init", conn |-> NULL]

SpecPickup == InitPickup /\ [][Next]_vars

\* ------------------------------------------------------------------------
\* A client page and the server
\* ------------------------------------------------------------------------
\* page.socket          the WebSocket of the page: the connection number the
\*                      server gave it (NULL before the handshake) and its
\*                      readyState, "connecting", "open" or "closed"
\* page.localId         localId, from the welcome
\* page.localReady      localReady
\* page.disabled        readyBtn.disabled
\* page.reconnectTimer  reconnectTimer: NULL or a timer id
\* page.timers          the pending timers: id and callback
\* page.nextTimer       the id setTimeout returns next
\* page.reconnectAttempts
\* page.hidden          document.hidden
\* page.serverState     serverState: empty (null) or the snapshot handled last
\* page.outbox          the ready messages sent and not yet handled by the server
\* The room of the page is "lobby" (initRoom reads it from the URL).
PageRoom == "lobby"

\* the page after the script ran: its last line called connect()
LoadedPage ==
    [socket |-> [id |-> NULL, st |-> "connecting"],
     localId |-> NULL,
     localReady |-> FALSE,
     disabled |-> TRUE,
     reconnectTimer |-> NULL,
     timers |-> {},
     nextTimer |-> 1,
     reconnectAttempts |-> 0,
     hidden |-> FALSE,
     serverState |-> {},
     outbox |-> << >>]

\* scheduleReconnect()
scheduleReconnect(p) ==
    IF p.reconnectTimer # NULL THEN p
    ELSE IF p.hidden
    THEN [p EXCEPT !.reconnectTimer = p.nextTimer,
                   !.timers = @ \cup {[id |-> p.nextTimer, fn |-> "scheduleReconnect"]},
                   !.nextTimer = @ + 1]
    ELSE [p EXCEPT !.reconnectAttempts = @ + 1,
                   !.reconnectTimer = p.nextTimer,
                   !.timers = @ \cup {[id |-> p.nextTimer, fn |-> "connect"]},
                   !.nextTimer = @ + 1]

\* connect() up to the registration of the listeners
connect(p) ==
    IF p.socket.st = "open" THEN p
    ELSE [p EXCEPT !.timers = {t \in @ : t.id # p.reconnectTimer},
                   !.reconnectTimer = NULL,
                   !.socket = [id |-> NULL, st |-> "connecting"],
                   !.disabled = TRUE]

\* the "open" listener
OnOpen(p, c) ==
    [p EXCEPT !.socket = [id |-> c, st |-> "open"],
              !.disabled = FALSE,
              !.reconnectAttempts = 0]

\* the "message" listener on a welcome
OnWelcome(p, msg) == [p EXCEPT !.localId = msg.id]

\* the "message" listener on a state snapshot
OnState(p, msg) ==
    [p EXCEPT !.serverState = {msg},
              !.localReady = IF msg.gameOver THEN FALSE ELSE @]

\* the "close" listener
OnSocketClose(p) ==
    scheduleReconnect([p EXCEPT !.socket.st = "closed", !.outbox = << >>])

\* sendReady()
sendReady(p) ==
    IF p.socket.st # "open" THEN p
    ELSE [p EXCEPT !.outbox = Append(@, [type |-> "ready", ready |-> p.localReady])]

\* the click listener of readyBtn
OnClick(p) ==
    IF p.disabled THEN p
    ELSE sendReady([p EXCEPT !.localReady = ~@])

\* the callback of the pending timer t
OnTimer(p, t) ==
    LET fired == [p EXCEPT !.timers = @ \ {t}]
    IN IF t.fn = "scheduleReconnect" THEN scheduleReconnect(fired)
       ELSE connect([fired EXCEPT !.reconnectTimer = NULL])

\* the connection of the page
PageConn == page.socket.id

\* the handshake of the socket of the page: the server runs its connection
\* handler on the next connection, c; the page runs its "open" listener and
\* then its listener on the welcome, or, when the room is full, its listener
\* on the "full" message and on the close that follows it
PageAccept(c) ==
    /\ page.socket.st = "connecting"
    /\ conns[c].st = "idle"
    /\ \A d \in ConnIds : d < c => conns[d].st # "idle"
    /\ LET reg == getRoom(rooms, PageRoom)
           room == reg[PageRoom]
       IN IF IsFull(room)
          THEN /\ rooms' = reg
               /\ conns' = [conns EXCEPT ![c].st = "rejected",
                                         ![c].roomId = PageRoom,
                                         ![c].sent = Append(@, "full")]
               /\ page' = OnSocketClose(OnOpen(page, c))
          ELSE IF assignSide(room) = "none"
          THEN /\ rooms' = reg
               /\ conns' = [conns EXCEPT ![c].st = "rejected",
                                         ![c].roomId = PageRoom]
               /\ page' = OnSocketClose(OnOpen(page, c))
          ELSE /\ rooms' = PutRoom(reg, Join(room, c))
               /\ conns' = [conns EXCEPT ![c] = OpenConn(c, Join(room, c))]
               /\ page' = OnWelcome(OnOpen(page, c), conns'[c].welcome)
    /\ last' = [op |-> "pageAccept", conn |-> c, roomId |-> PageRoom]
    /\ UNCHANGED used

\* a click on readyBtn
PageClick ==
    /\ Len(page.outbox) < MaxEvents
    /\ page' = OnClick(page)
    /\ last' = [op |-> "click", conn |-> NULL]
    /\ UNCHANGED <<rooms, conns, used>>

\* the server handles the oldest ready message of the page
PageDeliver ==
    /\ page.socket.st = "open"
    /\ page.outbox # << >>
    /\ used.msgs + used.ticks < MaxEvents
    /\ LET room == rooms[PageRoom]
           msg == Head(page.outbox)
       IN /\ rooms' = PutRoom(rooms, OnMessage(room, PlayerIndex(room, PageConn), msg))
          /\ last' = [op |-> "ready", conn |-> PageConn, msg |-> msg]
    /\ page' = [page EXCEPT !.outbox = Tail(@)]
    /\ used' = [used EXCEPT !.msgs = @ + 1]
    /\ UNCHANGED conns

\* broadcastState(room) reaches the page, which handles the snapshot
PageState ==
    /\ page.socket.st = "open"
    /\ page' = OnState(page, Snapshot(rooms[PageRoom]))
    /\ page' # page
    /\ last' = [op |-> "state", conn |-> PageConn]
    /\ UNCHANGED <<rooms, conns, used>>

\* the socket of the page closes: the server runs its close handler, the
\* page its "close" listener
PageDrop ==
    /\ page.socket.st = "open"
    /\ LET room == rooms[PageRoom]
           player == room.players[PlayerIndex(room, PageConn)]
           after == OnClose(room, PageConn, player.holdingFoodId)
           empty == Len(after.players) = 0
       IN /\ rooms' = IF empty THEN DeleteRoom(rooms, PageRoom)
                      ELSE PutRoom(rooms, after)
          /\ conns' = [d \in ConnIds |->
                IF d = PageConn
                THEN [conns[d] EXCEPT !.st = "closed",
                                      !.held = player.holdingFoodId,
                                      !.orphan = empty]
                ELSE IF empty /\ conns[d].roomId = PageRoom /\ conns[d].st = "closed"
                THEN [conns[d] EXCEPT !.orphan = TRUE]
                ELSE conns[d]]
    /\ page' = OnSocketClose(page)
    /\ last' = [op |-> "pageDrop", conn |-> PageConn]
    /\ UNCHANGED used

\* a pending timer of the page fires
PageTimer(t) ==
    /\ t \in page.timers
    /\ page' = OnTimer(page, t)
    /\ last' = [op |-> "timer", conn |-> NULL, fn |-> t.fn]
    /\ UNCHANGED <<rooms, conns, used>>

\* the page goes to the background, or comes back
PageVisibility ==
    /\ page' = [page EXCEPT !.hidden = ~@]
    /\ last' = [op |-> "visibility", conn |-> NULL]
    /\ UNCHANGED <<rooms, conns, used>>

NextPage ==
    \/ \E c \in ConnIds : PageAccept(c)
    \/ PageClick
    \/ PageDeliver
    \/ PageState
    \/ PageDrop
    \/ \E t \in page.timers : PageTimer(t)
    \/ PageVisibility
    \* the other connections: what the server does for them leaves the page alone
    \/ \E c \in ConnIds : Connect(c, PageRoom)
    \/ \E c \in ConnIds \ {PageConn}, msg \in ReadyMsgs : Message(c, msg)
    \/ \E c \in ConnIds \ {PageConn} : Close(c)
    \/ \E c \in ConnIds : CloseRefused(c)
    \/ TickDriver

\* the page was loaded, in an empty server; or the page is the left player
\* of a match that is about to end, for which it had clicked ready
InitPage ==
    /\ rooms \in {<< >>, [r \in {PageRoom} |-> FeedRoom]}
    /\ conns = [c \in ConnIds |->
                  IF PageRoom \in DOMAIN rooms /\ c \in PlayerIds(rooms[PageRoom])
                  THEN OpenConn(c, rooms[PageRoom])
                  ELSE IdleConn]
    /\ page = IF PageRoom \in DOMAIN rooms
              THEN [LoadedPage EXCEPT !.socket = [id |-> 1, st |-> "open"],
                                      !.localId = 1,
                                      !.localReady = TRUE,
                                      !.disabled = FALSE,
                                      !.serverState = {Snapshot(rooms[PageRoom])}]
              ELSE LoadedPage
    /\ used = [ticks |-> 0, msgs |-> 0]
    /\ last = [op |-> "init", conn |-> NULL]

SpecPage == InitPage /\ [][NextPage]_vars

\* the browser runs a pending timer in the end, and a handshake begun ends
SpecPageLive ==
    /\ SpecPage
    /\ WF_vars(\E t \in page.timers : PageTimer(t))
    /\ WF_vars(\E c \in ConnIds : PageAccept(c))

\* ------------------------------------------------------------------------
\* The server receiving payloads that are no message of the protocol
\* ------------------------------------------------------------------------
\* the texts a client sends: no JSON, the JSON null, a number, a string, an
\* array, an object without type, an object of an unknown type
Payloads == {"oops", "null", "7", "\"up\"", "[1]", "{}", "{\"type\":\"chat\"}"}

\* JSON.parse(data) for the texts of Payloads: whether it returns, and the
\* kind of value it returns; type is the type property of a parsed object
JSONParse(data) ==
    IF data = "oops" THEN [ok |-> FALSE, kind |-> "none", type |-> "undefined"]
    ELSE IF data = "null" THEN [ok |-> TRUE, kind |-> "null", type |-> "undefined"]
    ELSE IF data = "7" THEN [ok |-> TRUE, kind |-> "number", type |-> "undefined"]
    ELSE IF data = "\"up\"" THEN [ok |-> TRUE, kind |-> "string", type |-> "undefined"]
    ELSE IF data = "[1]" THEN [ok |-> TRUE, kind |-> "array", type |-> "undefined"]
    ELSE IF data = "{}" THEN [ok |-> TRUE, kind |-> "object", type |-> "undefined"]
    ELSE [ok |-> TRUE, kind |-> "object", type |-> "chat"]

\* ws.on("message") on a text of Payloads: msg.type is a TypeError on null and
\* undefined on a number, a string and an array; threw tells that the error
\* left the handler
OnPayload(room, data) ==
    LET msg == JSONParse(data)
    IN IF ~msg.ok THEN [threw |-> FALSE, room |-> room]
       ELSE IF msg.kind = "null" THEN [threw |-> TRUE, room |-> room]
       ELSE [threw |-> FALSE, room |-> room]

\* the message event of connection c with a text of Payloads; an error that
\* leaves the handler is an uncaught exception, on which the process exits
Payload(c, data) ==
    /\ UNCHANGED page
    /\ conns[c].st = "open"
    /\ used.msgs + used.ticks < MaxEvents
    /\ LET done == OnPayload(rooms[conns[c].roomId], data)
       IN /\ rooms' = PutRoom(rooms, done.room)
          /\ last' = [op |-> IF done.threw THEN "exit" ELSE "payload",
                      conn |-> c, data |-> data]
    /\ used' = [used EXCEPT !.msgs = @ + 1]
    /\ UNCHANGED conns

\* the process has not exited
Up == last.op # "exit"

NextPayload ==
    \/ Up /\ Next
    \/ Up /\ \E c \in ConnIds, data \in Payloads : Payload(c, data)

SpecPayload == Init /\ [][NextPayload]_vars

\* ------------------------------------------------------------------------
\* The server receiving input messages with extreme move values
\* ------------------------------------------------------------------------
\* {"type":"input","move":{"x":1e999,"y":0}}: JSON.parse reads 1e999 as
\* Infinity, and Number(Infinity) || 0 is Infinity
HugeMsg ==
    [type |-> "input", moveX |-> Infinity, moveY |-> 0, aim |-> 0, release |-> FALSE]

\* a move of a large finite magnitude, up and to the left
FarMsg ==
    [type |-> "input", moveX |-> -30, moveY |-> -30, aim |-> 0, release |-> FALSE]

WideMsgs == {HugeMsg, FarMsg}

NextWide ==
    \/ Next
    \/ \E c \in ConnIds, msg \in WideMsgs : Message(c, msg)

SpecWide == Init /\ [][NextWide]_vars

\* ------------------------------------------------------------------------
\* The server with clients that send an aim that is no finite number
\* ------------------------------------------------------------------------
\* {"type":"input","aim":1e999}: Number(Infinity) || player.input.aim is
\* Infinity, and Number(undefined) || 0 is 0
AimMsg ==
    [type |-> "input", moveX |-> 0, moveY |-> 0, aim |-> Infinity, release |-> FALSE]

\* the simulation driver when tick(room) does not return for a room: the
\* callback never ends, and no handler or driver of the process runs again
TickHangs ==
    /\ UNCHANGED page
    /\ used.msgs + used.ticks < MaxEvents
    /\ \E r \in DOMAIN rooms :
          /\ Stuck(rooms[r])
          /\ last' = [op |-> "hang", conn |-> NULL, room |-> r]
    /\ used' = [used EXCEPT !.ticks = @ + 1]
    /\ UNCHANGED <<rooms, conns>>

\* the simulation driver has returned from every run
Live == last.op # "hang"

NextAim ==
    \/ Live /\ Next
    \/ Live /\ \E c \in ConnIds : Message(c, AimMsg)
    \/ Live /\ TickHangs

SpecAim == Init /\ [][NextAim]_vars

\* ------------------------------------------------------------------------
\* The server with sockets that leave OPEN before their close event
\* ------------------------------------------------------------------------
NextSockets ==
    \/ Next
    \/ \E c \in ConnIds : Disconnect(c)

\* the two players of "lobby" in a match with a food within reach
InitSockets ==
    /\ page = NoPage
    /\ rooms = [r \in {"lobby"} |-> ReachRoom]
    /\ conns = [c \in ConnIds |->
                  IF c \in PlayerIds(rooms["lobby"])
                  THEN OpenConn(c, rooms["lobby"])
                  ELSE IdleConn]
    /\ used = [ticks |-> 0, msgs |-> 0]
    /\ last = [op |-> "init", conn |-> NULL]

SpecSockets == InitSockets /\ [][NextSockets]_vars

\* ------------------------------------------------------------------------
\* updateFoods on its own
\* ------------------------------------------------------------------------
\* the number of physics steps
MaxFalls == 50

\* the ends of the ranges of the two Math.random() results of a wrap:
\* x in [80, WIDTH - 80) and vx in [-8, 8) pixel per second
FallDraws ==
    [x : {Px(80), WIDTH - Px(80) - 1}, vx : {-Px(8), Px(8) - 1}]

\* a match with MAX_FOOD free foods and a match with a held food
InitFoods ==
    /\ page = NoPage
    /\ rooms \in {[r \in {"lobby"} |-> CapRoom], [r \in {"lobby"} |-> HeldRoom]}
    /\ conns = [c \in ConnIds |->
                  IF c \in PlayerIds(rooms["lobby"])
                  THEN OpenConn(c, rooms["lobby"])
                  ELSE IdleConn]
    /\ used = [ticks |-> 0, msgs |-> 0]
    /\ last = [op |-> "init", conn |-> NULL]

\* one call of updateFoods(room, DT)
Fall ==
    /\ UNCHANGED page
    /\ used.ticks < MaxFalls
    /\ \E r \in DOMAIN rooms : \E draws \in [Wrapping(rooms[r]) -> FallDraws] :
          /\ rooms' = [rooms EXCEPT ![r] = updateFoods(@, draws)]
          /\ last' = [op |-> "updateFoods", conn |-> NULL, room |-> r,
                      wrapped |-> {rooms[r].foods[k].id : k \in Wrapping(rooms[r])}]
    /\ used' = [used EXCEPT !.ticks = @ + 1]
    /\ UNCHANGED conns

SpecFoods == InitFoods /\ [][Fall]_vars

\* ------------------------------------------------------------------------
\* rotateTowards on its own
\* ------------------------------------------------------------------------
\* the largest magnitude of the angles, above two turns of PI
MaxAngle == 7000
\* the distance of the angles of the grid
AngleStep == 449

\* a grid of angles, and the angles at the seam of the canonical range, at
\* zero and a full turn away from them
Angles ==
    {a \in -MaxAngle..MaxAngle : a % AngleStep = 0}
    \cup {s * PI + e : s \in {-2, -1, 0, 1, 2}, e \in {-1, 0, 1}}

\* the steps: none, the smallest, that of a tick, and steps up to a full turn
Deltas == {0, 1, MAX_ANGULAR_STEP, 10 * MAX_ANGULAR_STEP, PI - 1, PI, PI + 1, 2 * PI}

\* the arguments of a call, not yet made
InitRotate ==
    /\ page = NoPage
    /\ rooms = << >>
    /\ conns = [c \in ConnIds |-> IdleConn]
    /\ used = [ticks |-> 0, msgs |-> 0]
    /\ \E current \in Angles, target \in Angles, maxDelta \in Deltas :
          last = [op |-> "call", conn |-> NULL,
                  current |-> current, target |-> target, maxDelta |-> maxDelta]

\* the call of rotateTowards
Rotate ==
    /\ UNCHANGED page
    /\ last.op = "call"
    /\ last' = [op |-> "rotateTowards", conn |-> NULL,
                current |-> last.current, target |-> last.target,
                maxDelta |-> last.maxDelta,
                result |-> rotateTowards(last.current, last.target, last.maxDelta)]
    /\ UNCHANGED <<rooms, conns, used>>

SpecRotate == InitRotate /\ [][Rotate]_vars

\* ------------------------------------------------------------------------
\* Properties
\* ------------------------------------------------------------------------
\* the room the handlers of connection c work on
RoomOf(c) == rooms[conns[c].roomId]

\* the players of room id roomId before a step, none when it is not registered
PlayersBefore(roomId) ==
    IF roomId \in DOMAIN rooms THEN rooms[roomId].players ELSE << >>

\* C1: leave is idempotent: a second run of the close handler of a connection
\* whose player was already removed, at once or after other joins, ready
\* messages and ticks, changes nothing in any room nor in the registry.
C1_LeaveTwiceChangesNothing ==
    [][last'.op = "closeAgain" => rooms' = rooms]_vars

\* C2: a ready message handled while the room is started changes neither the
\* sender's ready flag nor anything else, and never restarts the match.
C2_ReadyIgnoredWhileRunning ==
    [][(last'.op = "ready" /\ RoomOf(last'.conn).started) => rooms' = rooms]_vars

\* the state startRoom leaves a room in
JustStarted(room) ==
    /\ room.started
    /\ ~room.gameOver
    /\ room.winnerId = NULL
    /\ room.loserId = NULL
    /\ room.time = 0
    /\ room.lastSpawnTime = 0
    /\ room.foods = << >>
    /\ room.nextFoodId = 1
    /\ \A i \in 1..Len(room.players) :
          LET player == room.players[i]
          IN /\ player.fullness = 0
             /\ player.holdingFoodId = NULL
             /\ player.y = HEIGHT \div 2
             /\ player.side = "left" => player.x = Px(180) /\ player.angle = 0
             /\ player.side = "right" =>
                   player.x = WIDTH - Px(180) /\ player.angle = PI

\* C3: when a ready message makes both of the 2 present players ready, the
\* room is RUNNING after that same step, empty of food, its clocks and
\* counters reset, every player at fullness 0, holding nothing, at the
\* canonical spawn of its side.
C3_StartOnAllReady ==
    (/\ last.op = "ready"
     /\ Len(RoomOf(last.conn).players) = 2
     /\ \A i \in 1..2 : RoomOf(last.conn).players[i].ready)
    => JustStarted(RoomOf(last.conn))

\* the second of two players became ready and the match started
C3_Witness ==
    /\ last.op = "ready"
    /\ last.msg.ready
    /\ used.msgs = 2
    /\ allReady(RoomOf(last.conn))
    /\ RoomOf(last.conn).started

\* the state handleEating leaves a room in when the player at position i lost
Lost(room, i) ==
    /\ room.gameOver
    /\ ~room.started
    /\ room.loserId = room.players[i].id
    /\ Len(room.players) = 2
    /\ room.winnerId = room.players[3 - i].id
    /\ \A j \in 1..Len(room.players) : ~room.players[j].ready

\* C4: when an eat raises a player's fullness to MAX_FULLNESS or more, the
\* room has, after that same tick, gameOver, not started, that player as
\* loser, the other player as winner, and no player ready.
C4_GameOverOnFull ==
    [][last'.op = "tick" =>
         \A r \in DOMAIN rooms : \A i \in 1..Len(rooms[r].players) :
            (/\ rooms[r].players[i].fullness < MAX_FULLNESS
             /\ rooms'[r].players[i].fullness >= MAX_FULLNESS)
            => Lost(rooms'[r], i)]_vars

\* a tick ended a running match
C4_Witness ==
    /\ last.op = "tick"
    /\ \E r \in last.advanced :
          /\ rooms[r].gameOver
          /\ \E i \in 1..Len(rooms[r].players) :
                rooms[r].players[i].fullness >= MAX_FULLNESS

\* C5: in every reachable state of every room, gameOver implies not started.
C5_GameOverNotStarted ==
    \A r \in DOMAIN rooms : rooms[r].gameOver => ~rooms[r].started

\* a finished match on which a message was handled
C5_Witness ==
    /\ last.op \in {"ready", "input"}
    /\ RoomOf(last.conn).gameOver

\* C6: every room has at most 2 players, every side is left or right, and no
\* two players of a room have the same side.
C6_TwoPlayersTwoSides ==
    \A r \in DOMAIN rooms :
        /\ Len(rooms[r].players) <= 2
        /\ \A i \in 1..Len(rooms[r].players) :
              rooms[r].players[i].side \in {"left", "right"}
        /\ \A i, j \in 1..Len(rooms[r].players) :
              rooms[r].players[i].side = rooms[r].players[j].side => i = j

\* a full room one of whose players left and was replaced
C6_Witness ==
    \E r \in DOMAIN rooms :
        /\ Len(rooms[r].players) = 2
        /\ rooms[r].players[1].side = "right"
        /\ \E c \in ConnIds : conns[c].st = "closed" /\ conns[c].roomId = r

\* C7: a connection to a room with fewer than 2 players is accepted and added
\* with side left if no present player has side left, otherwise with side
\* right (also next to a remaining right player).
C7_JoinTakesFreeSide ==
    [][last'.op = "connect" =>
         LET c == last'.conn
             before == PlayersBefore(last'.roomId)
             after == rooms'[last'.roomId].players
         IN Len(before) < 2 =>
               /\ conns'[c].st = "open"
               /\ Len(after) = Len(before) + 1
               /\ after[Len(after)].id = c
               /\ after[Len(after)].side =
                     IF \A i \in 1..Len(before) : before[i].side # "left"
                     THEN "left" ELSE "right"]_vars

\* a player joined on the left of a player who was there before on the right
C7_Witness ==
    /\ last.op = "connect"
    /\ conns[last.conn].st = "open"
    /\ Len(RoomOf(last.conn).players) = 2
    /\ RoomOf(last.conn).players[1].side = "right"
    /\ RoomOf(last.conn).players[2].id = last.conn
    /\ RoomOf(last.conn).players[2].side = "left"

\* C8: a connection to a room that already has 2 players is sent "full" and
\* closed; it is never added to a room, never gets a welcome or a state
\* message, its later close triggers no leave, and the attempt changes no room.
C8_FullRoomRejects ==
    [][/\ (/\ last'.op = "connect"
           /\ Len(PlayersBefore(last'.roomId)) >= 2)
          => /\ rooms' = rooms
             /\ conns'[last'.conn].st = "rejected"
       /\ \A c \in ConnIds : conns'[c].st \in {"rejected", "dropped"} =>
             /\ conns'[c].sent = <<"full">>
             /\ conns'[c].welcome = NoWelcome
             /\ \A r \in DOMAIN rooms' : c \notin PlayerIds(rooms'[r])
             /\ last'.op = "broadcast" => \A r \in DOMAIN rooms : c \notin last'.to[r]
             /\ (last'.op = "closeRefused" /\ last'.conn = c) => rooms' = rooms
      ]_vars

\* the close event of a refused connection was dispatched beside a full room
C8_Witness ==
    /\ last.op = "closeRefused"
    /\ conns[last.conn].st = "dropped"
    /\ Len(rooms[conns[last.conn].roomId].players) = 2

\* the state resetGameIfNeeded leaves a room of fewer than 2 players in
Waiting(room) ==
    /\ ~room.gameOver
    /\ ~room.started
    /\ room.winnerId = NULL
    /\ room.loserId = NULL
    /\ room.time = 0
    /\ room.foods = << >>
    /\ room.nextFoodId = 1
    /\ \A i \in 1..Len(room.players) :
          ~room.players[i].ready /\ room.players[i].holdingFoodId = NULL

\* C9: after a leave is handled the player is in no room, and if fewer than 2
\* players remain in its room, the room is reset to waiting: no game over, not
\* started, no winner or loser, time 0, no food, food-id counter 1, and no
\* remaining player ready or holding.
C9_LeaveResets ==
    last.op = "close" =>
        /\ \A r \in DOMAIN rooms : last.conn \notin PlayerIds(rooms[r])
        /\ conns[last.conn].roomId \in DOMAIN rooms =>
              (Len(RoomOf(last.conn).players) < 2 => Waiting(RoomOf(last.conn)))

\* a player left a match while holding a food, the other player remains
C9_Witness ==
    /\ last.op = "close"
    /\ conns[last.conn].held # NULL
    /\ conns[last.conn].roomId \in DOMAIN rooms
    /\ Len(RoomOf(last.conn).players) = 1

\* C10: a tick of a room that is not started or is game over changes nothing
\* of the room: no player, no food, no clock, no flag.
C10_IdleTickNoOp ==
    [][last'.op = "tick" =>
         \A r \in DOMAIN rooms : ~Running(rooms[r]) => rooms'[r] = rooms[r]]_vars

\* the driver ran over a finished match it did not advance
C10_Witness ==
    /\ last.op = "tick"
    /\ \E r \in DOMAIN rooms : r \notin last.advanced /\ rooms[r].gameOver

\* C11: an input message handled while the room is not started changes
\* nothing; handled while the room is running it changes nothing but the
\* stored input of the sending player.
C11_InputOnlyWhileRunning ==
    [][last'.op = "input" =>
         LET c == last'.conn
             roomId == conns[c].roomId
             i == PlayerIndex(rooms[roomId], c)
         IN IF ~rooms[roomId].started THEN rooms' = rooms
            ELSE rooms' = [rooms EXCEPT ![roomId].players[i].input =
                                           rooms'[roomId].players[i].input]]_vars

\* a running room stored the move and the release of an input message
C11_Witness ==
    /\ last.op = "input"
    /\ last.msg = ReleaseMsg
    /\ RoomOf(last.conn).started
    /\ LET input == RoomOf(last.conn).players[PlayerIndex(RoomOf(last.conn), last.conn)].input
       IN input.release /\ input.moveX = 1 /\ input.moveY = 0

\* the ids of the foods of a room
FoodIds(room) == {room.foods[k].id : k \in 1..Len(room.foods)}

\* food is within the mouth of player
InMouth(player, food) ==
    DistLeq(Diff(food.x, mouthPosition(player).x),
            Diff(food.y, mouthPosition(player).y), MOUTH_RADIUS)

\* C12: a tick removes at most one food and raises the fullness of at most
\* one player, and the food it removes is the first in the order of the
\* collection whose dwell timer reached EAT_TIME: no food before it is left
\* with a timer at the threshold.
C12_OneEatPerTick ==
    [][last'.op = "tick" =>
         \A r \in DOMAIN rooms :
            LET before == rooms[r]
                after == rooms'[r]
                eaten == FoodIds(before) \ FoodIds(after)
                fed == {i \in 1..Len(before.players) :
                           after.players[i].fullness > before.players[i].fullness}
            IN /\ Cardinality(eaten) <= 1
               /\ Cardinality(fed) <= 1
               /\ \A id \in eaten :
                     \A k \in 1..(FoodIndex(before.foods, id) - 1) :
                        /\ after.foods[k].id = before.foods[k].id
                        /\ \A p \in DOMAIN after.foods[k].mouthTimers :
                              after.foods[k].mouthTimers[p] < EAT_TIME]_vars

\* a tick fed one player while a later food, one tick short of EAT_TIME in
\* the mouth of the other player, stayed
C12_Witness ==
    /\ last.op = "tick"
    /\ \E r \in last.advanced :
          /\ \E i \in 1..Len(rooms[r].players) :
                rooms[r].players[i].fullness > 0
          /\ \E i \in 1..Len(rooms[r].players), k \in 1..Len(rooms[r].foods) :
                /\ rooms[r].players[i].fullness = 0
                /\ InMouth(rooms[r].players[i], rooms[r].foods[k])
                /\ TimerOf(rooms[r].foods[k], rooms[r].players[i].id) = EAT_TIME - 1

\* C13: a payload that is no recognised message (no JSON, JSON that is no
\* object, an object of unknown or missing type) is discarded: no room
\* changes, nothing is sent, and no error leaves the message handler.
C13_BadPayloadDiscarded ==
    [][last'.op \in {"payload", "exit"} =>
         /\ rooms' = rooms
         /\ conns' = conns
         /\ last'.op = "payload"]_vars

\* the player of id id holds a food in room, and the food says so
Holds(room, id) ==
    LET i == PlayerIndex(room, id)
        k == FoodIndex(room.foods, room.players[i].holdingFoodId)
    IN /\ room.players[i].holdingFoodId # NULL
       /\ k # 0
       /\ room.foods[k].state = "held"
       /\ room.foods[k].heldBy = id

\* C14: release is edge-triggered. After every tick that advances a room the
\* stored release flag of each of its players is false; a flag becomes true
\* only by an input message of that player; and a tick that finds the flag of
\* a holding player false performs no release: the food is still held by that
\* player, or was eaten.
C14_ReleaseEdgeTriggered ==
    [][/\ last'.op = "tick" =>
            \A r \in last'.advanced : \A i \in 1..Len(rooms'[r].players) :
               ~rooms'[r].players[i].input.release
       /\ \A r \in DOMAIN rooms' : \A i \in 1..Len(rooms'[r].players) :
             LET id == rooms'[r].players[i].id
             IN rooms'[r].players[i].input.release =>
                   \/ last'.op = "input" /\ last'.conn = id
                   \/ /\ r \in DOMAIN rooms
                      /\ id \in PlayerIds(rooms[r])
                      /\ rooms[r].players[PlayerIndex(rooms[r], id)].input.release
       /\ last'.op = "tick" =>
            \A r \in last'.advanced : \A i \in 1..Len(rooms[r].players) :
               LET player == rooms[r].players[i]
               IN (Holds(rooms[r], player.id) /\ ~player.input.release) =>
                     \/ player.holdingFoodId \notin FoodIds(rooms'[r])
                     \/ /\ Holds(rooms'[r], player.id)
                        /\ rooms'[r].players[i].holdingFoodId = player.holdingFoodId
      ]_vars

\* a tick consumed the release that an input message of a holding player had
\* stored with its move (tryPickup gave the food back to the player in the
\* same tick)
C14_Witness ==
    /\ last.op = "tick"
    /\ used.msgs = 1
    /\ \E r \in last.advanced : \E i \in 1..Len(rooms[r].players) :
          /\ rooms[r].players[i].input.moveX = ReleaseMsg.moveX
          /\ ~rooms[r].players[i].input.release
          /\ Holds(rooms[r], rooms[r].players[i].id)

\* C15: in every reachable state every player's x lies in [60, WIDTH - 60]
\* and y in [80, HEIGHT - 60], whatever move values the input messages stored.
C15_PlayersInBounds ==
    \A r \in DOMAIN rooms : \A i \in 1..Len(rooms[r].players) :
        /\ rooms[r].players[i].x >= Px(60)
        /\ rooms[r].players[i].x <= WIDTH - Px(60)
        /\ rooms[r].players[i].y >= Px(80)
        /\ rooms[r].players[i].y <= HEIGHT - Px(60)

\* the angle of (-PI, PI] that differs from d by full turns
Canonical(d) == ((d + PI - 1) % (2 * PI)) - PI + 1

\* C16: rotateTowards(current, target, maxDelta) returns an angle of
\* (-PI, PI] whose wrapped difference from current is at most maxDelta in
\* magnitude and has the sign of the shortest wrapped path to target, and it
\* returns the canonical form of target when that path is at most maxDelta.
C16_RotateTowards ==
    last.op = "rotateTowards" =>
        LET shortest == Canonical(last.target - last.current)
            moved == Canonical(last.result - last.current)
        IN /\ last.result > -PI
           /\ last.result <= PI
           /\ Abs(moved) <= last.maxDelta
           /\ shortest > 0 => moved >= 0
           /\ shortest < 0 => moved <= 0
           /\ shortest = 0 => moved = 0
           /\ Abs(shortest) <= last.maxDelta => last.result = Canonical(last.target)

\* a bounded step across the seam: from an angle just below PI to a
\* negative one, short of the target
C16_Witness ==
    /\ last.op = "rotateTowards"
    /\ last.maxDelta = MAX_ANGULAR_STEP
    /\ last.current > PI - MAX_ANGULAR_STEP
    /\ last.current <= PI
    /\ last.result < 0
    /\ last.result # Canonical(last.target)

\* a food with the id the room would give next is in the room after the step
Spawned(r) ==
    /\ rooms'[r].nextFoodId = rooms[r].nextFoodId + 1
    /\ rooms[r].nextFoodId \in FoodIds(rooms'[r])
    /\ rooms[r].nextFoodId \notin FoodIds(rooms[r])

\* C17: a room never holds more than MAX_FOOD foods. In a tick in which the
\* spawn accumulator reaches SPAWN_INTERVAL it is reset to zero, and a food
\* is appended only if fewer than MAX_FOOD foods were alive at that moment;
\* in any other tick the accumulator grows by one tick and no food appears.
C17_FoodCap ==
    /\ [](\A r \in DOMAIN rooms :
            /\ Len(rooms[r].foods) <= MAX_FOOD
            /\ rooms[r].lastSpawnTime < SPAWN_INTERVAL)
    /\ [][last'.op = "tick" =>
            \A r \in last'.advanced :
               IF rooms[r].lastSpawnTime + 1 >= SPAWN_INTERVAL
               THEN /\ rooms'[r].lastSpawnTime = 0
                    /\ Spawned(r) => Len(rooms'[r].foods) - 1 < MAX_FOOD
                    /\ ~Spawned(r) =>
                          /\ Len(rooms'[r].foods) >= MAX_FOOD
                          /\ rooms'[r].nextFoodId = rooms[r].nextFoodId
               ELSE /\ rooms'[r].lastSpawnTime = rooms[r].lastSpawnTime + 1
                    /\ rooms'[r].nextFoodId = rooms[r].nextFoodId
                    /\ FoodIds(rooms'[r]) \subseteq FoodIds(rooms[r])
      ]_vars

\* the spawn tick of a full room: the accumulator was reset and no food came
C17_Witness ==
    /\ last.op = "tick"
    /\ "lobby" \in DOMAIN rooms
    /\ "lobby" \in last.advanced
    /\ rooms["lobby"].time = CapTicks + 1
    /\ rooms["lobby"].lastSpawnTime = 0
    /\ Len(rooms["lobby"].foods) = MAX_FOOD
    /\ rooms["lobby"].nextFoodId = MAX_FOOD + 1

\* C18: the physics step of the free foods removes and adds no food. A free
\* food whose y exceeds HEIGHT + 60 after the integration stays in the room
\* with its id and value, at y = -20 with vy = 0 and x in [80, WIDTH - 80];
\* the foods are the same in number and order, and a held food is untouched.
C18_FoodsWrap ==
    [][last'.op = "updateFoods" =>
         LET before == rooms[last'.room].foods
             after == rooms'[last'.room].foods
         IN /\ Len(after) = Len(before)
            /\ \A k \in 1..Len(before) :
                  /\ after[k].id = before[k].id
                  /\ after[k].value = before[k].value
                  /\ after[k].state = before[k].state
                  /\ after[k].heldBy = before[k].heldBy
                  /\ before[k].state = "held" => after[k] = before[k]
                  /\ (/\ before[k].state # "held"
                      /\ FallenFood(before[k]).y > HEIGHT + Px(60)) =>
                        /\ after[k].y = -Px(20)
                        /\ after[k].vy = 0
                        /\ after[k].x >= Px(80)
                        /\ after[k].x <= WIDTH - Px(80)
      ]_vars

\* a step sent a food of a full room back to the top
C18_Witness ==
    /\ last.op = "updateFoods"
    /\ last.wrapped # {}
    /\ Len(rooms[last.room].foods) = MAX_FOOD
    /\ \A id \in last.wrapped : \E k \in 1..Len(rooms[last.room].foods) :
          /\ rooms[last.room].foods[k].id = id
          /\ rooms[last.room].foods[k].y = -Px(20)
          /\ rooms[last.room].foods[k].vy = 0

\* the number of ready players a reader counts in a snapshot
\* (msg.players.filter((p) => p.ready).length)
ReadyCount(msg) == Cardinality({i \in 1..Len(msg.players) : msg.players[i].ready})

\* the result a reader with id localId takes from a snapshot of a finished
\* match (msg.loserId === localId)
Outcome(msg, localId) == IF msg.loserId = localId THEN "lost" ELSE "won"

\* the snapshot lists the players and foods of the room, with the values of
\* the room
Faithful(msg, room) ==
    /\ msg.started = room.started
    /\ msg.gameOver = room.gameOver
    /\ msg.winnerId = room.winnerId
    /\ msg.loserId = room.loserId
    /\ Len(msg.players) = Len(room.players)
    /\ \A i \in 1..Len(room.players) :
          /\ msg.players[i].id = room.players[i].id
          /\ msg.players[i].side = room.players[i].side
          /\ msg.players[i].fullness = room.players[i].fullness
          /\ msg.players[i].ready = room.players[i].ready
          /\ msg.players[i].holdingFoodId = room.players[i].holdingFoodId
    /\ Len(msg.foods) = Len(room.foods)
    /\ \A k \in 1..Len(room.foods) :
          /\ msg.foods[k].id = room.foods[k].id
          /\ msg.foods[k].state = room.foods[k].state
          /\ msg.foods[k].heldBy = room.foods[k].heldBy
          /\ msg.foods[k].value = room.foods[k].value
    /\ ReadyCount(msg) = Cardinality({id \in PlayerIds(room) :
                            room.players[PlayerIndex(room, id)].ready})
    /\ room.gameOver =>
          \A id \in PlayerIds(room) :
             /\ Outcome(msg, id) = "lost" <=> room.loserId = id
             /\ (Len(room.players) = 2 /\ Outcome(msg, id) = "won") =>
                   room.winnerId = id

\* C19: the snapshot of every reachable room is a complete read view: it
\* lists exactly the room's players and foods; started, gameOver, winnerId,
\* loserId, each player's side, fullness, ready and holdingFoodId and each
\* food's state, heldBy and value are the room's; the ready count and the
\* winner and loser read from the snapshot are those of the room. The same
\* holds of the payload a broadcast has just sent.
C19_SnapshotFaithful ==
    /\ \A r \in DOMAIN rooms : Faithful(Snapshot(rooms[r]), rooms[r])
    /\ last.op = "broadcast" =>
          \A r \in DOMAIN rooms : Faithful(last.payload[r], rooms[r])

\* a broadcast of a finished match with both players in the room
C19_Witness ==
    /\ last.op = "broadcast"
    /\ \E r \in DOMAIN rooms :
          /\ rooms[r].gameOver
          /\ Len(rooms[r].players) = 2
          /\ last.payload[r].winnerId # last.payload[r].loserId
          /\ last.payload[r].loserId \in PlayerIds(rooms[r])
          /\ last.payload[r].winnerId \in PlayerIds(rooms[r])

\* C20: a broadcast sends one and the same snapshot of a room to exactly the
\* players of that room whose socket is open: a player of another room gets
\* the snapshot of its own room only, a refused, closing or departed
\* connection gets nothing, and the broadcast changes no room, player or
\* food.
C20_BroadcastRecipients ==
    [][last'.op = "broadcast" =>
         /\ rooms' = rooms
         /\ conns' = conns
         /\ DOMAIN last'.to = DOMAIN rooms
         /\ \A r \in DOMAIN rooms : last'.to[r] \subseteq PlayerIds(rooms[r])
         /\ \A c \in ConnIds :
               IF conns[c].st = "open"
               THEN /\ conns[c].roomId \in DOMAIN rooms
                    /\ c \in PlayerIds(rooms[conns[c].roomId])
                    /\ last'.got[c] = {last'.payload[conns[c].roomId]}
                    /\ last'.payload[conns[c].roomId].roomId = conns[c].roomId
                    /\ \A r \in DOMAIN rooms : c \in last'.to[r] <=> r = conns[c].roomId
               ELSE /\ last'.got[c] = {}
                    /\ \A r \in DOMAIN rooms : c \notin last'.to[r]
      ]_vars

\* a broadcast to a room of two players of which one socket is closing, while
\* a player of another room is connected
C20_Witness ==
    /\ last.op = "broadcast"
    /\ \E r \in DOMAIN rooms :
          /\ Len(rooms[r].players) = 2
          /\ \E c \in PlayerIds(rooms[r]) : conns[c].st = "closing"
          /\ Cardinality(last.to[r]) = 1
          /\ \E d \in ConnIds :
                /\ conns[d].st = "open"
                /\ conns[d].roomId # r
                /\ last.got[d] # {}

\* the accepted connections of room r whose close handler has not run
Connected(r) ==
    {c \in ConnIds : conns[c].st \in {"open", "closing"} /\ conns[c].roomId = r}

\* C21: a room id is in the registry exactly when an accepted connection
\* whose close handler has not run belongs to that room, and the players of a
\* registered room are those connections: a room appears with the first join
\* to its id, leaves the registry with its last player, and is never removed
\* while a player is connected.
C21_RegistryMatchesConnections ==
    /\ DOMAIN rooms \subseteq RoomIds
    /\ \A r \in RoomIds : r \in DOMAIN rooms <=> Connected(r) # {}
    /\ \A r \in DOMAIN rooms : PlayerIds(rooms[r]) = Connected(r)

\* the last player of a room has just left and the room is gone, while
\* another room with a connected player stays
C21_Witness ==
    /\ last.op = "close"
    /\ conns[last.conn].roomId \notin DOMAIN rooms
    /\ \E r \in DOMAIN rooms : Connected(r) # {}

\* C22: the join to a room id that no connected player belongs to, the id of
\* an earlier room included, gets a fresh room: not started, not over, no
\* winner or loser, no foods, food-id counter 1, time 0, spawn accumulator 0,
\* and the joiner, on the left with nothing held, as its only player.
C22_FreshRoomOnReuse ==
    [][(last'.op = "connect" /\ Connected(last'.roomId) = {}) =>
         /\ last'.roomId \in DOMAIN rooms'
         /\ LET room == rooms'[last'.roomId]
            IN /\ room.id = last'.roomId
               /\ ~room.started
               /\ ~room.gameOver
               /\ room.winnerId = NULL
               /\ room.loserId = NULL
               /\ room.foods = << >>
               /\ room.nextFoodId = 1
               /\ room.time = 0
               /\ room.lastSpawnTime = 0
               /\ room.players = <<NewPlayer(last'.conn, "left")>>
      ]_vars

\* a join to the id of a room that two players of a match in progress left
C22_Witness ==
    /\ last.op = "connect"
    /\ conns[last.conn].st = "open"
    /\ PlayerIds(rooms[last.roomId]) = {last.conn}
    /\ Cardinality({d \in ConnIds : conns[d].st = "closed"
                                     /\ conns[d].roomId = last.roomId}) = 2

\* room r is in the registry after the step as it was before
Same(r) == r \in DOMAIN rooms' /\ rooms'[r] = rooms[r]

\* C23: rooms do not interact. A join, a leave, an input message and a ready
\* message change no room but the one of the connection; the tick driver
\* takes every running room to a state that tick gives from that room alone
\* and leaves every other room as it is; a broadcast changes no room, and the
\* snapshot and the recipients of a room are those of that room.
C23_RoomsIndependent ==
    [][/\ last'.op = "connect" =>
             \A r \in DOMAIN rooms \ {last'.roomId} : Same(r)
       /\ last'.op \in {"close", "input", "ready"} =>
             \A r \in DOMAIN rooms \ {conns[last'.conn].roomId} : Same(r)
       /\ last'.op = "closeRefused" => rooms' = rooms
       /\ last'.op = "tick" =>
             /\ DOMAIN rooms' = DOMAIN rooms
             /\ \A r \in DOMAIN rooms :
                   IF r \in last'.advanced
                   THEN \E d \in TickDraws(rooms[r]) : rooms'[r] = tick(rooms[r], d)
                   ELSE Same(r)
       /\ last'.op = "broadcast" =>
             /\ rooms' = rooms
             /\ \A r \in DOMAIN rooms :
                   /\ last'.payload[r] = Snapshot(rooms[r])
                   /\ last'.to[r] \subseteq PlayerIds(rooms[r])
      ]_vars

\* the tick driver advanced the match of one room while another room, with a
\* player waiting, stayed as it was
C23_Witness ==
    /\ last.op = "tick"
    /\ last.advanced # {}
    /\ \E r \in DOMAIN rooms : r \notin last.advanced /\ Len(rooms[r].players) = 1

\* C24: every run of the simulation driver returns and advances every
\* running room by exactly one step, whatever move and aim values the input
\* handler stored.
C24_TickTerminates ==
    [][last'.op \in {"tick", "hang"} =>
         /\ last'.op = "tick"
         /\ \A r \in DOMAIN rooms :
               Running(rooms[r]) =>
                  /\ r \in DOMAIN rooms'
                  /\ rooms'[r].time = rooms[r].time + 1
      ]_vars

\* C25: every accepted connection was sent exactly one welcome, with its
\* player's id and room id, and with the side its player has in the room as
\* long as the player is there; a snapshot goes only to a connection that
\* was sent its welcome before.
C25_WelcomeOnceFirst ==
    /\ [](\A c \in ConnIds :
            Accepted(c) =>
               /\ conns[c].sent = <<"welcome">>
               /\ conns[c].welcome.id = c
               /\ conns[c].welcome.roomId = conns[c].roomId
               /\ conns[c].welcome.side \in {"left", "right"}
               /\ conns[c].st # "closed" =>
                     /\ conns[c].roomId \in DOMAIN rooms
                     /\ c \in PlayerIds(RoomOf(c))
                     /\ RoomOf(c).id = conns[c].welcome.roomId
                     /\ RoomOf(c).players[PlayerIndex(RoomOf(c), c)].side
                           = conns[c].welcome.side)
    /\ [][last'.op = "broadcast" =>
            \A c \in ConnIds :
               last'.got[c] # {} => /\ Accepted(c)
                                    /\ conns[c].sent = <<"welcome">>]_vars

\* a snapshot went to a player who joined on the left of a player on the
\* right and was welcomed as left
C25_Witness ==
    /\ last.op = "broadcast"
    /\ \E c \in ConnIds :
          /\ last.got[c] # {}
          /\ conns[c].sent = <<"welcome">>
          /\ conns[c].welcome.side = "left"
          /\ Len(RoomOf(c).players) = 2
          /\ RoomOf(c).players[2].id = c
          /\ RoomOf(c).players[1].side = "right"

\* the hold relation of a room is consistent
HoldConsistent(room) ==
    /\ \A i \in 1..Len(room.players) : \A k \in 1..Len(room.foods) :
          room.players[i].holdingFoodId = room.foods[k].id
             <=> room.foods[k].heldBy = room.players[i].id
    /\ \A k \in 1..Len(room.foods) :
          /\ room.foods[k].state \in {"free", "held"}
          /\ room.foods[k].state = "held" <=> room.foods[k].heldBy # NULL
          /\ room.foods[k].heldBy # NULL => room.foods[k].heldBy \in PlayerIds(room)
          /\ \A j \in 1..Len(room.foods) : room.foods[j].id = room.foods[k].id => j = k
    /\ \A i \in 1..Len(room.players) :
          room.players[i].holdingFoodId # NULL =>
             room.players[i].holdingFoodId \in FoodIds(room)

\* C26: in every room, after every tick and every handler, a player's
\* holdingFoodId is the id of a food exactly when that food's heldBy is the
\* player's id, a food is held exactly when its heldBy is not null, and
\* every holdingFoodId that is not null names a food of the room held by a
\* player of the room; so a food has at most one holder and a player at most
\* one food.
C26_HoldConsistent ==
    \A r \in DOMAIN rooms : HoldConsistent(rooms[r])

\* a tick of a match left a food in the hold of one of two players
C26_Witness ==
    /\ last.op = "tick"
    /\ \E r \in last.advanced :
          /\ Len(rooms[r].players) = 2
          /\ \E i \in 1..2 : Holds(rooms[r], rooms[r].players[i].id)
          /\ \E i \in 1..2 : rooms[r].players[i].holdingFoodId = NULL

\* the player at position i holds a reference that the food does not return:
\* the food is absent, or its heldBy is not the player
Orphaned(room, i) ==
    LET player == room.players[i]
        k == FoodIndex(room.foods, player.holdingFoodId)
    IN /\ player.holdingFoodId # NULL
       /\ k = 0 \/ room.foods[k].heldBy # player.id

\* C27: a player whose holdingFoodId, at the held-food step of a tick, names
\* a food that is absent from the room or whose heldBy is not that player
\* has holdingFoodId null after the tick.
C27_OrphanHealed ==
    [][last'.op = "tick" =>
         \A r \in last'.advanced :
            LET mid == PickupsFrom(updatePlayers(rooms[r]), 1)
            IN \A i \in 1..Len(mid.players) :
                  Orphaned(mid, i) => rooms'[r].players[i].holdingFoodId = NULL
      ]_vars

\* the eating step between pre, the room when tick calls handleEating, and
\* post, the room the tick leaves: the food that is gone fed one player and
\* nothing else changed
EatStep(pre, post) ==
    LET gone == FoodIds(pre) \ FoodIds(post)
    IN gone # {} =>
          /\ Cardinality(gone) = 1
          /\ Len(post.players) = Len(pre.players)
          /\ LET food == pre.foods[FoodIndex(pre.foods, CHOOSE id \in gone : TRUE)]
                 eaters == {i \in 1..Len(pre.players) :
                               post.players[i].fullness # pre.players[i].fullness}
             IN /\ Cardinality(eaters) = 1
                /\ \A i \in eaters :
                      /\ InMouth(pre.players[i], food)
                      /\ TimerOf(food, pre.players[i].id) + 1 >= EAT_TIME
                      /\ post.players[i].fullness = pre.players[i].fullness + food.value
                /\ \A i \in 1..Len(pre.players) :
                      /\ pre.players[i].id = food.heldBy =>
                            post.players[i].holdingFoodId = NULL
                      /\ post.players[i].holdingFoodId # food.id
                      /\ pre.players[i].id # food.heldBy =>
                            post.players[i].holdingFoodId = pre.players[i].holdingFoodId
                /\ \A k \in 1..Len(pre.foods) :
                      pre.foods[k].id # food.id =>
                         LET j == FoodIndex(post.foods, pre.foods[k].id)
                         IN [post.foods[j] EXCEPT !.mouthTimers = << >>]
                               = [pre.foods[k] EXCEPT !.mouthTimers = << >>]

\* C28: in a tick in which a food is eaten, one player's fullness grows, by
\* exactly the value of that food, and that player had the food in its mouth
\* for EAT_TIME; the food is gone from the room; the player who held it, the
\* eater or the other player, has holdingFoodId null afterwards; every other
\* player keeps its fullness, and every other food stays in the room with
\* its position, velocity, state and holder.
C28_EatingStep ==
    [][last'.op = "tick" =>
         \A r \in last'.advanced :
            \A d \in TickDraws(rooms[r]) :
               rooms'[r] = tick(rooms[r], d) =>
                  EatStep(updateFoods(BeforeFoods(rooms[r]), d.wrap), rooms'[r])
      ]_vars

\* a tick in which a player ate the food the other player held
C28_Witness ==
    /\ last.op = "tick"
    /\ \E r \in last.advanced :
          /\ Len(rooms[r].players) = 2
          /\ rooms[r].foods = << >>
          /\ rooms[r].players[2].fullness = 13
          /\ rooms[r].players[1].fullness = 0
          /\ rooms[r].players[1].holdingFoodId = NULL
          /\ rooms[r].time = ServeRoom.time + 2

\* the dwell timer of the food with this id for the player with id pid, 0
\* when the room has no such food
TimerIn(room, id, pid) ==
    LET k == FoodIndex(room.foods, id)
    IN IF k = 0 THEN 0 ELSE TimerOf(room.foods[k], pid)

\* C29: after every tick of a running room, for every food of the room and
\* every player, the dwell timer is zero if the food is outside the mouth
\* radius of the player, and the value before the tick plus one tick
\* duration if it is inside.
C29_DwellTimer ==
    [][last'.op = "tick" =>
         \A r \in last'.advanced :
            \A k \in 1..Len(rooms'[r].foods) : \A i \in 1..Len(rooms'[r].players) :
               LET food == rooms'[r].foods[k]
                   player == rooms'[r].players[i]
               IN TimerOf(food, player.id) =
                     IF InMouth(player, food)
                     THEN TimerIn(rooms[r], food.id, player.id) + 1
                     ELSE 0
      ]_vars

\* the food with this id was free when the pickup step of the tick of room
\* began, and a player took it in that step
PickedUp(room, id) ==
    LET before == updatePlayers(room)
        after == PickupsFrom(before, 1)
        k == FoodIndex(before.foods, id)
    IN /\ k # 0
       /\ before.foods[k].state = "free"
       /\ after.foods[k].state = "held"

\* the dwell timer with which the scan of handleEating finds the food: the
\* value before the tick, or zero for a food picked up in the tick
TimerBefore(room, id, pid) ==
    IF PickedUp(room, id) THEN 0 ELSE TimerIn(room, id, pid)

\* C29 as it holds: the scan of handleEating ends at the food that is eaten,
\* and a pickup empties the dwell timers. After every tick of a running room,
\* for every food of the room that the scan reached (every food when none was
\* eaten, the foods before the eaten one otherwise) and every player, the
\* dwell timer is zero if the food is outside the mouth radius of the player
\* and, if it is inside, one tick duration more than the value before the
\* tick, or exactly one tick duration for a food picked up in the tick. A food
\* behind the eaten one stays in the room with the timers the pickup step
\* left it, and a food spawned by the tick has no dwell.
C29_DwellTimerScanned ==
    [][last'.op = "tick" =>
         \A r \in last'.advanced :
            LET gone == FoodIds(rooms[r]) \ FoodIds(rooms'[r])
                reached(k) == \A e \in gone : k < FoodIndex(rooms[r].foods, e)
            IN /\ \A k \in 1..Len(rooms[r].foods) : \A i \in 1..Len(rooms'[r].players) :
                     LET id == rooms[r].foods[k].id
                         j == FoodIndex(rooms'[r].foods, id)
                         player == rooms'[r].players[i]
                     IN id \notin gone =>
                           /\ j # 0
                           /\ TimerOf(rooms'[r].foods[j], player.id) =
                                 IF ~reached(k) THEN TimerBefore(rooms[r], id, player.id)
                                 ELSE IF InMouth(player, rooms'[r].foods[j])
                                 THEN TimerBefore(rooms[r], id, player.id) + 1
                                 ELSE 0
               /\ \A j \in 1..Len(rooms'[r].foods) :
                     rooms'[r].foods[j].id \notin FoodIds(rooms[r]) =>
                        \A i \in 1..Len(rooms'[r].players) :
                           TimerOf(rooms'[r].foods[j], rooms'[r].players[i].id) = 0
      ]_vars

\* a tick left a held food in the mouth of the other player with a dwell of
\* one tick: its holder had let it go and taken it again in that tick
C29_Witness ==
    /\ last.op = "tick"
    /\ \E r \in last.advanced :
          /\ Len(rooms[r].players) = 2
          /\ \E k \in 1..Len(rooms[r].foods) :
                /\ rooms[r].foods[k].heldBy = rooms[r].players[1].id
                /\ InMouth(rooms[r].players[2], rooms[r].foods[k])
                /\ TimerOf(rooms[r].foods[k], rooms[r].players[2].id) = 1
                /\ TimerOf(ServeRoom.foods[1], rooms[r].players[2].id) > 1
                /\ rooms[r].time = ServeRoom.time + 1

\* the positions of the foods of room that are free and within the reach of
\* the player at position i
InReach(room, i) ==
    {k \in 1..Len(room.foods) :
        room.foods[k].state = "free" /\ isInCone(room.players[i], room.foods[k])}

\* the position of the food that the player at position i takes in the
\* pickup step that begins with room, 0 when it takes none: the first food
\* within its reach that no earlier player took
RECURSIVE Takes(_, _)
Takes(room, i) ==
    LET open == InReach(room, i) \ {Takes(room, j) : j \in 1..(i - 1)}
    IN IF room.players[i].holdingFoodId # NULL \/ open = {} THEN 0
       ELSE CHOOSE k \in open : \A j \in open : k <= j

\* the pickup step from pre to post
PickupStep(pre, post) ==
    /\ Len(post.players) = Len(pre.players)
    /\ Len(post.foods) = Len(pre.foods)
    /\ \A i \in 1..Len(pre.players) :
          /\ pre.players[i].holdingFoodId # NULL => post.players[i] = pre.players[i]
          /\ post.players[i] =
                [pre.players[i] EXCEPT !.holdingFoodId =
                    IF Takes(pre, i) = 0 THEN @ ELSE pre.foods[Takes(pre, i)].id]
    /\ \A k \in 1..Len(pre.foods) :
          LET takers == {i \in 1..Len(pre.players) : Takes(pre, i) = k}
          IN /\ pre.foods[k].state = "held" => post.foods[k] = pre.foods[k]
             /\ takers = {} => post.foods[k] = pre.foods[k]
             /\ \A i \in takers :
                   /\ post.foods[k] = [pre.foods[k] EXCEPT !.state = "held",
                                                          !.heldBy = pre.players[i].id,
                                                          !.mouthTimers = << >>]
                   /\ \A j \in 1..(i - 1) :
                         (pre.players[j].holdingFoodId = NULL /\ k \in InReach(pre, j))
                            => Takes(pre, j) \in 1..(k - 1)

\* C30: in the pickup step of every tick a player that holds a food takes
\* none; a player that holds none takes the first food in collection order
\* that is free and within its reach, and none if there is none; that food
\* is then held, with heldBy the player and no dwell timers, and the
\* player's holdingFoodId is its id; a food that is held stays with its
\* holder; a food within the reach of both players goes to the earlier one
\* in the room's player order. At the end of the tick a player holds what it
\* held after the pickup step, or nothing.
C30_PickupStep ==
    [][last'.op = "tick" =>
         \A r \in last'.advanced :
            LET pre == updatePlayers(rooms[r])
                post == PickupsFrom(pre, 1)
            IN /\ PickupStep(pre, post)
               /\ \A i \in 1..Len(post.players) :
                     rooms'[r].players[i].holdingFoodId
                        \in {post.players[i].holdingFoodId, NULL}
      ]_vars

\* a tick in which a food came into the reach of both players, and the left
\* player, the first of the room, has it
C30_Witness ==
    /\ last.op = "tick"
    /\ \E r \in last.advanced :
          /\ rooms[r].time = ContestRoom.time + 1
          /\ Len(rooms[r].players) = 2
          /\ \A i \in 1..2 : rooms[r].players[i].id = ContestRoom.players[i].id
          /\ InReach(ContestRoom, 1) = {1}
          /\ InReach(ContestRoom, 2) = {1}
          /\ Len(rooms[r].foods) = 1
          /\ rooms[r].foods[1].heldBy = rooms[r].players[1].id
          /\ rooms[r].players[1].holdingFoodId = rooms[r].foods[1].id
          /\ rooms[r].players[2].holdingFoodId = NULL

\* C31: when a tick consumes release = true from a player that holds a food,
\* then after that tick the player's holdingFoodId is null, and the food, if
\* it is still in the room, is free with heldBy null.
C31_ReleaseClearsHold ==
    [][last'.op = "tick" =>
         \A r \in last'.advanced :
            \A i \in 1..Len(rooms[r].players) :
               LET player == rooms[r].players[i]
                   k == FoodIndex(rooms[r].foods, player.holdingFoodId)
                   j == FoodIndex(rooms'[r].foods, player.holdingFoodId)
               IN (player.input.release /\ player.holdingFoodId # NULL /\ k # 0)
                     => /\ rooms'[r].players[i].holdingFoodId = NULL
                        /\ j # 0 => /\ rooms'[r].foods[j].state = "free"
                                    /\ rooms'[r].foods[j].heldBy = NULL
      ]_vars

\* the player with this id is in room with ready = true
IsReady(room, id) ==
    \E i \in 1..Len(room.players) : room.players[i].id = id /\ room.players[i].ready

\* C32: the step that ends a match leaves no player ready; in a room that is
\* not running a player becomes ready only by its own ready: true message;
\* and a room that is not running becomes running only in the handling of a
\* ready: true message, with two players, the sender made ready by that
\* message and the other player ready before it. So after a game over the
\* room runs again only after each of its two players sent ready: true.
C32_RematchNeedsFreshReady ==
    [][\A r \in DOMAIN rooms \cap DOMAIN rooms' :
          /\ (rooms'[r].gameOver /\ ~rooms[r].gameOver) =>
                \A id \in PlayerIds(rooms'[r]) : ~IsReady(rooms'[r], id)
          /\ ~Running(rooms[r]) =>
                \A id \in PlayerIds(rooms'[r]) :
                   (IsReady(rooms'[r], id) /\ ~IsReady(rooms[r], id)) =>
                      /\ last'.op = "ready"
                      /\ last'.conn = id
                      /\ last'.msg.ready
          /\ (Running(rooms'[r]) /\ ~Running(rooms[r])) =>
                /\ last'.op = "ready"
                /\ last'.msg.ready
                /\ Len(rooms[r].players) = 2
                /\ PlayerIds(rooms'[r]) = PlayerIds(rooms[r])
                /\ \A id \in PlayerIds(rooms[r]) \ {last'.conn} : IsReady(rooms[r], id)
      ]_vars

\* the match that was over runs again: both players sent ready: true
C32_Witness ==
    /\ last.op = "ready"
    /\ used.msgs = 2
    /\ used.ticks = 0
    /\ "lobby" \in DOMAIN rooms
    /\ Running(rooms["lobby"])
    /\ rooms["lobby"].time = 0
    /\ PlayerIds(rooms["lobby"]) = PlayerIds(OverRoom)
    /\ OverRoom.gameOver

\* C33: a room that was not started, or not registered, is started after a
\* step only if the step handled a ready message and left the room with
\* exactly 2 players, both ready; no connection, close, input message, tick
\* or broadcast starts a room. And in every state a started room has exactly
\* 2 players.
C33_StartedOnlyByReady ==
    /\ [](\A r \in DOMAIN rooms : rooms[r].started => Len(rooms[r].players) = 2)
    /\ [][\A r \in DOMAIN rooms' :
             (rooms'[r].started /\ (r \in DOMAIN rooms => ~rooms[r].started)) =>
                /\ last'.op = "ready"
                /\ r = conns[last'.conn].roomId
                /\ r \in DOMAIN rooms
                /\ Len(rooms'[r].players) = 2
                /\ \A i \in 1..2 : rooms'[r].players[i].ready
         ]_vars

\* the room "r2", which two connections joined, was started by the ready
\* message of the player that became ready last
C33_Witness ==
    /\ last.op = "ready"
    /\ last.msg.ready
    /\ "r2" \in DOMAIN rooms
    /\ conns[last.conn].roomId = "r2"
    /\ rooms["r2"].started
    /\ Len(rooms["r2"].players) = 2
    /\ \A i \in 1..2 : rooms["r2"].players[i].ready

\* C34: in every state, a room with gameOver has a loser and a winner, both
\* not null, which are the two distinct players of the room, and the
\* loser's fullness is MAX_FULLNESS or more.
C34_GameOverHasWinnerAndLoser ==
    \A r \in DOMAIN rooms :
       rooms[r].gameOver =>
          /\ rooms[r].loserId # NULL
          /\ rooms[r].winnerId # NULL
          /\ rooms[r].loserId # rooms[r].winnerId
          /\ Len(rooms[r].players) = 2
          /\ PlayerIds(rooms[r]) = {rooms[r].loserId, rooms[r].winnerId}
          /\ \A i \in 1..Len(rooms[r].players) :
                rooms[r].players[i].id = rooms[r].loserId =>
                   rooms[r].players[i].fullness >= MAX_FULLNESS

\* the winner of a finished match asked for a rematch and waits for the loser
C34_Witness ==
    /\ last.op = "ready"
    /\ last.msg.ready
    /\ RoomOf(last.conn).gameOver
    /\ RoomOf(last.conn).winnerId = last.conn
    /\ IsReady(RoomOf(last.conn), last.conn)
    /\ ~IsReady(RoomOf(last.conn), RoomOf(last.conn).loserId)

\* C35: while the room is running, after an input message with a numeric aim
\* a in (-PI, PI], 0 included, the stored aim of the player is a; and a tick
\* of a running room leaves every player with its stored aim as targetAngle.
C35_AimFollowsInput ==
    [][/\ (/\ last'.op = "input"
            /\ Running(RoomOf(last'.conn))
            /\ last'.msg.aim > -PI
            /\ last'.msg.aim <= PI)
           => LET room == rooms'[conns[last'.conn].roomId]
              IN room.players[PlayerIndex(room, last'.conn)].input.aim = last'.msg.aim
       /\ last'.op = "tick" =>
             \A r \in last'.advanced : \A i \in 1..Len(rooms[r].players) :
                rooms'[r].players[i].targetAngle = rooms[r].players[i].input.aim
      ]_vars

\* C36: a tick that leaves a room with gameOver, because its eating step
\* ended the match or because the match was over before, leaves the room's
\* elapsed time, its spawn accumulator and its food-id counter as they were,
\* and adds no food.
C36_NothingAfterGameOver ==
    [][last'.op = "tick" =>
         \A r \in DOMAIN rooms :
            rooms'[r].gameOver =>
               /\ rooms'[r].time = rooms[r].time
               /\ rooms'[r].lastSpawnTime = rooms[r].lastSpawnTime
               /\ rooms'[r].nextFoodId = rooms[r].nextFoodId
               /\ FoodIds(rooms'[r]) \subseteq FoodIds(rooms[r])
      ]_vars

\* C37: over every step that a room begins and ends started, no player's
\* fullness decreases; it increases only in a tick that removes a food from
\* the room, by the value of that food; and the handling of a message
\* leaves every fullness as it was.
C37_FullnessMonotone ==
    [][\A r \in DOMAIN rooms \cap DOMAIN rooms' :
          (rooms[r].started /\ rooms'[r].started) =>
             \A i \in 1..Len(rooms[r].players) : \A j \in 1..Len(rooms'[r].players) :
                rooms[r].players[i].id = rooms'[r].players[j].id =>
                   LET before == rooms[r].players[i].fullness
                       after == rooms'[r].players[j].fullness
                   IN /\ after >= before
                      /\ last'.op \in {"ready", "input"} => after = before
                      /\ after > before =>
                            /\ last'.op = "tick"
                            /\ \E k \in 1..Len(rooms[r].foods) :
                                  /\ rooms[r].foods[k].id \notin FoodIds(rooms'[r])
                                  /\ after = before + rooms[r].foods[k].value
      ]_vars

\* the ready flag the server holds for the player of the page
ServerReady ==
    LET room == rooms[PageRoom]
    IN room.players[PlayerIndex(room, PageConn)].ready

\* the page has handled the latest snapshot and no ready message of it is
\* in flight
Settled ==
    /\ page.socket.st = "open"
    /\ page.outbox = << >>
    /\ page.serverState = {Snapshot(rooms[PageRoom])}

\* C38: whenever the page has handled the latest state snapshot and no ready
\* message of it is in flight, its localReady is the ready flag the server
\* holds for its player.
C38_ReadyAgrees == Settled => page.localReady = ServerReady

\* C39: at most one reconnect timer is pending at any time; and whenever
\* the socket of the page is closed and the page is visible, a new
\* connection attempt is made in the end, unless the page is hidden again
\* before.
C39_ReconnectEventually ==
    /\ [](Cardinality(page.timers) <= 1)
    /\ (page.socket.st = "closed" /\ ~page.hidden)
          ~> (page.socket.st # "closed" \/ page.hidden)

=============================================================================
